---- MODULE Spec2Model ----
(***************************************************************************)
(* A model of wscls (src/wscls/wscls.py): the State object (Profile Store  *)
(* and its persistence), and the WsApp handlers that drive it.  Three      *)
(* specifications share the variables: SpecStore (the handlers that        *)
(* create, rename, delete and select), SpecSession (the connect() task     *)
(* under presses and edits) and SpecPersist (save, other programs writing  *)
(* the files, and the next run's load).                                    *)
(*                                                                         *)
(* A Python dict is a sequence of entries [k, v] in insertion order, so    *)
(* that list(d.keys())[0], pop + insert and json's key order are what the  *)
(* code makes them.  An object with a fixed set of string keys that the    *)
(* code only reads by key (a Configuration, a Text, a Context, the         *)
(* connecting parameters, a parsed state file) is a record; a key that is  *)
(* absent from the dict is absent from the record's DOMAIN.                *)
(***************************************************************************)
EXTENDS Integers, Sequences, FiniteSets, TLC

VARIABLES
    state,      \* the State object: self.state of WsApp
    disk,       \* the file system: file name -> [exists, mtime, content]
    clock,      \* the file system's clock: the mtime the next write gets
    ui,         \* the widgets the handlers read back: the two Select lists, the connect button
    phase,      \* where the application's life is: "start", "running", "saving", "exited"
    connecting_params,  \* self._connecting_params: <<>> for None, <<p>> for the dict p
    ws,         \* self._ws: "None", or the socket it refers to, "open" or "closed"
    task,       \* self._connect_task: "None", or where the connect() task stands
    dying,      \* a cancelled task whose CancelledError is still to be delivered: where it stood
    sess,       \* history of the current connect action: its snapshot, what was used, its counts
    saving,     \* the save() coroutine of action_quit: where it waits, what it has built and done
    env,        \* history: how often the application has run, how often another program wrote
    last,       \* history: the last user operation, its arguments and the State method's result
    nops        \* history: how many user operations have run

vars == <<state, disk, clock, ui, phase, connecting_params, ws, task, dying, sess,
          saving, env, last, nops>>

\* what the session manager owns
session_vars == <<connecting_params, ws, task, dying, sess>>

\* what action_quit owns, with the history of the runs
quit_vars == <<saving, env>>

----------------------------------------------------------------------------
(* dict *)

Entry(key, value) == [k |-> key, v |-> value]

DKeys(d) == [i \in 1..Len(d) |-> d[i].k]

DKeySet(d) == {d[i].k : i \in 1..Len(d)}

DHas(d, key) == \E i \in 1..Len(d) : d[i].k = key

DGet(d, key) == d[CHOOSE i \in 1..Len(d) : d[i].k = key].v

\* d[key] = value: an existing key keeps its place, a new key goes last
DSet(d, key, value) ==
    IF DHas(d, key)
    THEN [i \in 1..Len(d) |-> IF d[i].k = key THEN Entry(key, value) ELSE d[i]]
    ELSE Append(d, Entry(key, value))

\* del d[key] / d.pop(key), for a key that is present
DDel(d, key) == SelectSeq(d, LAMBDA e : e.k # key)

\* d1 == d2 in Python: the same keys with the same values, in any order
DEq(d1, d2) == {d1[i] : i \in 1..Len(d1)} = {d2[i] : i \in 1..Len(d2)}

\* dict.get(key, default) on a record
RGet(r, key, default) == IF key \in DOMAIN r THEN r[key] ELSE default

\* r[key] = value on a record
RSet(r, key, value) == (key :> value) @@ r

\* r.pop(key, None) on a record
RPop(r, key) == [f \in DOMAIN r \ {key} |-> r[f]]

\* r.update(other) on records
RUpdate(r, other) == other @@ r

----------------------------------------------------------------------------
(* bounds and input domains *)

\* the names a user types for a Configuration
ConfigNames == {"default", "a", "b"}

\* the names a user types for a Context
ContextNames == {"default", "x", "y"}

\* the primary state file and the files a Configuration can be linked to
StateFile == "P"
ExternalFiles == {"F1", "F2"}
Files == {StateFile} \cup ExternalFiles

\* A str that may hold ${name} placeholders (an address, a header name or
\* value, a body) is a sequence of tokens: literal text and placeholders.
Lit(text) == [t |-> "lit", s |-> text]
Var(name) == [t |-> "var", s |-> name]

\* the addresses a user types
Urls == {<<>>, <<Lit("u1")>>}

\* the methods a user picks, of HTTP_METHODS
Methods == {"WS", "GET"}

\* how many operations the user performs on the Profile Store in one run
MaxOps == 3

\* how many times the user edits the Store beside a running session or before a save
MaxEdits == 1

\* how many WebSocket connect attempts one connect action is followed through
MaxAttempts == 4

\* how many times the user presses the connect button in one run
MaxPresses == 3

----------------------------------------------------------------------------
(* State: defaults and construction *)

default_context == [context_variables |-> <<>>]

default_text == [text |-> <<>>, url |-> <<>>, method |-> "WS"]

default_configuration ==
    [filename |-> "",
     url |-> <<>>,
     method |-> "WS",
     headers |-> <<>>,
     autoping |-> FALSE,
     texts |-> <<Entry("", default_text)>>,
     auto_reconnect |-> TRUE,
     ssl_check |-> TRUE,
     show_headers |-> FALSE,
     follow_redirects |-> TRUE,
     stick_url_to_text |-> FALSE]

\* files_mtime.get(f): 0 stands for None, every real mtime is >= 1
NoMtimes == [f \in Files |-> 0]

State_init ==
    [configuration_name |-> "default",
     files_mtime |-> NoMtimes,
     configurations |-> <<Entry("default", default_configuration)>>,
     globals |-> <<>>,
     contexts |-> <<Entry("default", default_context)>>,
     context_name |-> "default",
     loaded |-> FALSE]

----------------------------------------------------------------------------
(* State: accessors.  get_configuration and get_context repair a dangling  *)
(* active name as a side effect, so each is the State after the call.      *)

get_configuration(st) ==
    IF DHas(st.configurations, st.configuration_name)
    THEN st
    ELSE [st EXCEPT !.configuration_name = st.configurations[1].k]

get_context(st) ==
    IF DHas(st.contexts, st.context_name)
    THEN st
    ELSE [st EXCEPT !.context_name = st.contexts[1].k]

\* the active Configuration, once get_configuration has run
configuration(st) == DGet(st.configurations, st.configuration_name)

\* get_value(key, default) for a key of the active Configuration
get_value(st, key, default) == RGet(configuration(get_configuration(st)), key, default)

\* set_value(key, value): the State after it
set_value(st, key, value) ==
    LET s1 == get_configuration(st)
    IN  [s1 EXCEPT !.configurations =
            DSet(@, s1.configuration_name, RSet(configuration(s1), key, value))]

\* get_current_text(): the State after it.  Empty texts are replaced by
\* default_text itself (its three keys become the names of three texts), of
\* which the first, "text", is selected and, being a str, is rewrapped;
\* otherwise a text_selected that names no text becomes the first key.
get_current_text(st) ==
    LET s0 == get_configuration(st)
        texts == RGet(configuration(s0), "texts", <<>>)
        cfg == configuration(s0)
    IN  IF texts = <<>>
        THEN set_value(
                set_value(s0, "texts",
                    <<Entry("text", [text |-> <<>>, url |-> <<>>]),
                      Entry("url", <<>>), Entry("method", "WS")>>),
                "text_selected", "text")
        ELSE IF "text_selected" \in DOMAIN cfg /\ DHas(texts, cfg.text_selected)
             THEN s0
             ELSE set_value(s0, "text_selected", texts[1].k)

----------------------------------------------------------------------------
(* State: delete *)

\* faulty variant of delete_configuration: the active name is never moved
delete_configuration_no_repoint(st, name) ==
    IF ~DHas(st.configurations, name) THEN st
    ELSE LET s1 == [st EXCEPT !.configurations = DDel(@, name)]
         IN  IF s1.configurations = <<>>
             THEN [s1 EXCEPT !.configurations = <<Entry("default", default_configuration)>>,
                             !.context_name = "default"]
             ELSE s1

delete_configuration(st, name) ==
    IF ~DHas(st.configurations, name) THEN st
    ELSE LET s1 == [st EXCEPT !.configurations = DDel(@, name)]
             s2 == IF s1.configurations = <<>>
                   THEN [s1 EXCEPT !.configurations = <<Entry("default", default_configuration)>>,
                                   !.context_name = "default"]
                   ELSE s1
         IN  IF s2.configuration_name = name
             THEN [s2 EXCEPT !.configuration_name = s2.configurations[1].k]
             ELSE s2

\* faulty variant of delete_context: "default" is not re-created
delete_context_no_default(st, name) ==
    IF ~DHas(st.contexts, name) THEN st
    ELSE LET s1 == [st EXCEPT !.contexts = DDel(@, name)]
         IN  IF s1.contexts # <<>> /\ s1.context_name = name
             THEN [s1 EXCEPT !.context_name = s1.contexts[1].k]
             ELSE s1

\* faulty variant of delete_context: the active name moves to the last key
delete_context_last_key(st, name) ==
    IF ~DHas(st.contexts, name) THEN st
    ELSE LET s1 == [st EXCEPT !.contexts = DDel(@, name)]
             s2 == IF s1.contexts = <<>>
                   THEN [s1 EXCEPT !.contexts = <<Entry("default", default_context)>>,
                                   !.context_name = "default"]
                   ELSE s1
         IN  IF s2.context_name = name
             THEN [s2 EXCEPT !.context_name = s2.contexts[Len(s2.contexts)].k]
             ELSE s2

delete_context(st, name) ==
    IF ~DHas(st.contexts, name) THEN st
    ELSE LET s1 == [st EXCEPT !.contexts = DDel(@, name)]
             s2 == IF s1.contexts = <<>>
                   THEN [s1 EXCEPT !.contexts = <<Entry("default", default_context)>>,
                                   !.context_name = "default"]
                   ELSE s1
         IN  IF s2.context_name = name
             THEN [s2 EXCEPT !.context_name = s2.contexts[1].k]
             ELSE s2

----------------------------------------------------------------------------
(* files.  A file's content is [kind |-> "json", data |-> the parsed        *)
(* object] or [kind |-> "garbage"] (json.load raises).                     *)

NoFile == [exists |-> FALSE, mtime |-> 0, content |-> [kind |-> "none"]]

Json(data) == [kind |-> "json", data |-> data]

\* a file an earlier run, or another program, wrote
Written(content) == [exists |-> TRUE, mtime |-> 1, content |-> content]

\* a write of `content` to file f at the clock's time
WriteFile(dk, f, content, now) ==
    [dk EXCEPT ![f] = [exists |-> TRUE, mtime |-> now, content |-> content]]

----------------------------------------------------------------------------
(* State: load *)

\* faulty variant of load_configuration_from_file: the link is set although
\* the file could not be read
load_configuration_from_file_links(st, dk, name, filename) ==
    LET config == IF DHas(st.configurations, name)
                  THEN DGet(st.configurations, name)
                  ELSE default_configuration
        f == dk[filename]
        opened == filename \in DOMAIN dk /\ f.exists
        mtimes == IF opened THEN [st.files_mtime EXCEPT ![filename] = f.mtime]
                  ELSE st.files_mtime
        config2 == IF opened /\ f.content.kind = "json"
                   THEN RSet(RUpdate(config, f.content.data), "filename", filename)
                   ELSE RSet(config, "filename", filename)
    IN  [st EXCEPT !.files_mtime = mtimes,
                   !.configurations = DSet(@, name, config2)]

load_configuration_from_file(st, dk, name, filename) ==
    LET config == IF DHas(st.configurations, name)
                  THEN DGet(st.configurations, name)
                  ELSE default_configuration
        f == dk[filename]
        opened == filename \in DOMAIN dk /\ f.exists
        mtimes == IF opened THEN [st.files_mtime EXCEPT ![filename] = f.mtime]
                  ELSE st.files_mtime
        config2 == IF opened /\ f.content.kind = "json"
                   THEN RSet(RUpdate(config, f.content.data), "filename", filename)
                   ELSE config
    IN  [st EXCEPT !.files_mtime = mtimes,
                   !.configurations = DSet(@, name, config2)]

\* a JSON value that is not an object, where a Configuration is expected
NotObject == [not_object |-> TRUE]

\* the except branch of load_configuration_from_file: open or json.load raised
\* and 'Error loading configuration from file' is reported
load_configuration_from_file_fails(dk, filename) ==
    ~(filename \in DOMAIN dk /\ dk[filename].exists /\ dk[filename].content.kind = "json")

RECURSIVE load_configurations(_, _, _, _)
\* the loop of load over the file's configurations, from entry i on; it ends
\* at a record that is not an object (config.get raises)
load_configurations(st, dk, entries, i) ==
    IF i > Len(entries) THEN st
    ELSE IF "not_object" \in DOMAIN entries[i].v THEN st
    ELSE LET key == entries[i].k
             config == entries[i].v
             s1 == IF RGet(config, "filename", "") # ""
                   THEN load_configuration_from_file(st, dk, key, config.filename)
                   ELSE [st EXCEPT !.configurations = DSet(@, key, config)]
         IN  load_configurations(s1, dk, entries, i + 1)

\* load reports 'Error loading state': json.load raised, or the loop did
load_raises(st, dk) ==
    LET f == dk[StateFile]
    IN  /\ f.exists
        /\ \/ f.content.kind # "json"
           \/ \E i \in 1..Len(RGet(f.content.data, "configurations", st.configurations)) :
                "not_object" \in
                    DOMAIN RGet(f.content.data, "configurations", st.configurations)[i].v

load(st, dk) ==
    LET f == dk[StateFile]
    IN  IF ~f.exists THEN [st EXCEPT !.loaded = TRUE]
        ELSE LET s1 == [st EXCEPT !.files_mtime[StateFile] = f.mtime]
             IN  IF f.content.kind # "json" THEN s1
                 ELSE LET data == f.content.data
                          s2 == [s1 EXCEPT
                                    !.globals = RGet(data, "globals", s1.globals),
                                    !.configuration_name = RGet(data, "selected_configuration", "default"),
                                    !.contexts = RGet(data, "contexts", s1.contexts),
                                    !.context_name = RGet(data, "selected_context", "default"),
                                    !.loaded = TRUE]
                      IN  load_configurations(s2, dk,
                              RGet(data, "configurations", s2.configurations), 1)

----------------------------------------------------------------------------
(* WsApp: the refreshes a handler ends with.  Each is the pair             *)
(* [state, ui] after it.                                                   *)

App(st, u) == [state |-> st, ui |-> u]

refresh_contexts(a) ==
    App(a.state, [a.ui EXCEPT !.contexts_list =
        [options |-> DKeySet(a.state.contexts), value |-> a.state.context_name]])

refresh_configurations(a) ==
    App(a.state, [a.ui EXCEPT !.configurations_list =
        [options |-> DKeySet(a.state.configurations), value |-> a.state.configuration_name]])

\* faulty variant of refresh_context_variables: the list is not filled, so
\* get_context() is not called
refresh_context_variables_unread(a) == a

\* get_value('context_variables') reads through get_context
refresh_context_variables(a) == App(get_context(a.state), a.ui)

refresh_fields(a) ==
    LET a1 == App(get_current_text(get_configuration(a.state)), a.ui)
    IN  refresh_context_variables(refresh_contexts(a1))

----------------------------------------------------------------------------
(* WsApp: widgets as composed, and the history variable *)

ui_init ==
    [configurations_list |-> [options |-> {""}, value |-> ""],
     contexts_list |-> [options |-> {""}, value |-> ""],
     connect |-> "Connect"]

\* os.path.exists(path)
path_exists(dk, path) == path \in DOMAIN dk /\ dk[path].exists

\* What the last user operation was: its name, the name it was given, how it
\* ended ("ok", "refused", "declined", "raised", "cancelled"), the keys and
\* the active name of the collection before it, and the State as the State
\* method it calls left it (before the handler's own assignments and
\* refreshes); returns is what edit_config_state_config_key_value returned
\* to the handler.

\* `return None', and the handlers that call no such function
NoReturn == [kind |-> "None", input1 |-> "", input2 |-> ""]

\* `return (None, None)'
NonePair == [kind |-> "tuple", input1 |-> "None", input2 |-> "None"]

\* `return val': the result of the modal, with the two inputs typed
val(input1, input2) == [kind |-> "val", input1 |-> input1, input2 |-> input2]

Last(op, name, result, pre_keys, pre_active, mid) ==
    [op |-> op, name |-> name, result |-> result,
     pre_keys |-> pre_keys, pre_active |-> pre_active, mid |-> mid,
     returns |-> NoReturn]

NoLast == Last("none", "", "ok", <<>>, "", State_init)

\* The history of a connect action: the dict get_connect_params returned when
\* the button was pressed, the arguments the last ws_connect or request call
\* was given, and how many ws_connect calls, session ends (remote close,
\* error, failed connect), "Reconnecting" lines and HTTP requests there were.
\* no save() has run: pc is "idle", "prompt" (awaiting confirm_request) or "done"
\* crash is the copy of that save during which the process is killed (0: none)
\* and how far the copy had come
NoCrash == [at |-> 0, stage |-> ""]

NoSaving ==
    [pc |-> "idle", i |-> 0, file |-> "", new_configurations |-> <<>>, result |-> "",
     began |-> <<>>, prompts |-> <<>>, writes |-> <<>>, crash |-> NoCrash, race |-> 0]

NoEnv == [runs |-> 1, saves |-> 0, writes |-> 0]

\* Of the log it keeps how many 'Error:' lines, received frames and lines of
\* ping there were, how many frames were written to the socket, and the text
\* last sent; link is "up" from 'Connected to' until 'Disconnected', "down"
\* otherwise, and "broken" once one of the two lines came out of turn; sends
\* is how often send was pressed (link and sends are kept from one connect
\* action to the next).  faults counts the exceptions the transport raised;
\* failed tells that the open socket delivered an error frame; socket is the
\* transport of the latest WebSocket ("none", "open", "closed"); live counts
\* the tasks that were created and have neither returned nor been cancelled;
\* pings is how often ping was pressed.
NoSession ==
    [presses |-> 0, snapshot |-> <<>>, used |-> <<>>,
     attempts |-> 0, ends |-> 0, reconnects |-> 0, requests |-> 0, closes |-> 0,
     link |-> "down", errors |-> 0, frames |-> 0, ping_lines |-> 0, written |-> 0,
     sent |-> <<>>, sends |-> 0,
     faults |-> 0, failed |-> FALSE, socket |-> "none", live |-> 0, pings |-> 0]

\* one more user operation, while the run's budget lasts
Counted == nops < MaxOps /\ nops' = nops + 1

----------------------------------------------------------------------------
(* WsApp: Configurations *)

\* faulty variant of edit_config_state_config_key: an edit that keeps the name
\* stores default_value under it
edit_config_state_config_key_resets(section, input1, orig_key_name, create, default_value) ==
    IF create
    THEN IF section # <<>> /\ DHas(section, input1)
         THEN [result |-> "refused", section |-> section]
         ELSE [result |-> "ok", section |-> DSet(section, input1, default_value)]
    ELSE IF orig_key_name # "" /\ input1 = orig_key_name
         THEN [result |-> "ok", section |-> DSet(section, input1, default_value)]
         ELSE IF orig_key_name # "" /\ section # <<>> /\ DHas(section, input1)
              THEN [result |-> "refused", section |-> section]
              ELSE IF ~DHas(section, orig_key_name)
                   THEN [result |-> "raised", section |-> section]
                   ELSE [result |-> "ok",
                         section |-> DSet(DDel(section, orig_key_name), input1,
                                          DGet(section, orig_key_name))]

\* edit_config_state_config_key on a dict `section`: [result, section]
edit_config_state_config_key(section, input1, orig_key_name, create, default_value) ==
    IF create
    THEN IF section # <<>> /\ DHas(section, input1)
         THEN [result |-> "refused", section |-> section]
         ELSE [result |-> "ok", section |-> DSet(section, input1, default_value)]
    ELSE IF orig_key_name # "" /\ input1 = orig_key_name
         THEN [result |-> "ok", section |-> section]
         ELSE IF orig_key_name # "" /\ section # <<>> /\ DHas(section, input1)
              THEN [result |-> "refused", section |-> section]
              ELSE IF ~DHas(section, orig_key_name)
                   THEN [result |-> "raised", section |-> section]
                   ELSE [result |-> "ok",
                         section |-> DSet(DDel(section, orig_key_name), input1,
                                          DGet(section, orig_key_name))]

on_add_configuration(input1, input2) ==
    /\ phase = "running"
    /\ LET r == edit_config_state_config_key(state.configurations, input1, "", TRUE,
                                             default_configuration)
           s1 == [state EXCEPT !.configurations = r.section]
           s2 == IF input2 # "" THEN load_configuration_from_file(s1, disk, input1, input2)
                 ELSE s1
           a == refresh_configurations(App(s2, ui))
       IN  /\ last' = Last("add_configuration", input1, r.result,
                           DKeys(state.configurations), state.configuration_name, State_init)
           /\ IF r.result = "ok"
              THEN state' = a.state /\ ui' = a.ui
              ELSE UNCHANGED <<state, ui>>
    /\ Counted
    /\ UNCHANGED <<quit_vars, disk, clock, phase, session_vars>>

\* what the edit dialog shows as the file name: the active Configuration's
shown_filename(st) ==
    IF DHas(st.configurations, st.configuration_name)
    THEN RGet(DGet(st.configurations, st.configuration_name), "filename", "")
    ELSE ""

on_edit_configuration(input1, input2, confirmed) ==
    /\ phase = "running"
    /\ LET orig_name == state.configuration_name
           old_file == IF DHas(state.configurations, orig_name)
                       THEN RGet(DGet(state.configurations, orig_name), "filename", "")
                       ELSE ""
           r == edit_config_state_config_key(state.configurations, input1, orig_name, FALSE,
                                             default_configuration)
           s1 == [state EXCEPT !.configurations = r.section]
           asks == input2 # "" /\ old_file # input2 /\ path_exists(disk, old_file)
           raises == input2 # "" /\ ~DHas(s1.configurations, input1)
           s2 == IF input2 # ""
                 THEN [s1 EXCEPT !.configurations =
                          DSet(@, input1, RSet(DGet(@, input1), "filename", input2))]
                 ELSE s1
           a == refresh_configurations(App([s2 EXCEPT !.configuration_name = input1], ui))
           result == IF r.result # "ok" THEN r.result
                     ELSE IF asks /\ ~confirmed THEN "declined"
                     ELSE IF raises THEN "raised"
                     ELSE "ok"
       IN  /\ last' = Last("edit_configuration", input1, result,
                           DKeys(state.configurations), orig_name, State_init)
           /\ IF result = "ok" THEN state' = a.state /\ ui' = a.ui
              ELSE IF result = "declined" THEN state' = s1 /\ UNCHANGED ui
              ELSE UNCHANGED <<state, ui>>
    /\ Counted
    /\ UNCHANGED <<quit_vars, disk, clock, phase, session_vars>>

WsApp_delete_configuration(confirmed) ==
    /\ phase = "running"
    /\ LET selected == ui.configurations_list.value
           mid == delete_configuration(state, selected)
           \* list(...keys())[0] raises IndexError on an empty dict
           raises == mid.configurations = <<>>
           s2 == [mid EXCEPT !.configuration_name = mid.configurations[1].k]
           a == refresh_configurations(refresh_fields(App(s2, ui)))
           result == IF ~confirmed THEN "declined" ELSE IF raises THEN "raised" ELSE "ok"
       IN  /\ selected # ""
           /\ last' = Last("delete_configuration", selected, result,
                           DKeys(state.configurations), state.configuration_name,
                           IF confirmed THEN mid ELSE State_init)
           /\ IF result = "ok" THEN state' = a.state /\ ui' = a.ui
              ELSE IF result = "raised" THEN state' = mid /\ UNCHANGED ui
              ELSE UNCHANGED <<state, ui>>
    /\ Counted
    /\ UNCHANGED <<quit_vars, disk, clock, phase, session_vars>>

change_configuration(selected) ==
    /\ phase = "running"
    /\ selected \in ui.configurations_list.options \ {""}
    /\ LET u1 == [ui EXCEPT !.configurations_list.value = selected]
           a == refresh_fields(App([state EXCEPT !.configuration_name = selected], u1))
       IN  /\ state' = a.state
           /\ ui' = a.ui
           /\ last' = Last("change_configuration", selected, "ok",
                           DKeys(state.configurations), state.configuration_name, State_init)
    /\ Counted
    /\ UNCHANGED <<quit_vars, disk, clock, phase, session_vars>>

----------------------------------------------------------------------------
(* WsApp: Contexts *)

on_add_context(input1) ==
    /\ phase = "running"
    /\ LET r == edit_config_state_config_key(state.contexts, input1, "", TRUE, default_context)
           a == refresh_contexts(App([state EXCEPT !.contexts = r.section], ui))
       IN  /\ last' = Last("add_context", input1, r.result,
                           DKeys(state.contexts), state.context_name, State_init)
           /\ IF r.result = "ok" THEN state' = a.state /\ ui' = a.ui
              ELSE UNCHANGED <<state, ui>>
    /\ Counted
    /\ UNCHANGED <<quit_vars, disk, clock, phase, session_vars>>

on_edit_context(input1) ==
    /\ phase = "running"
    /\ LET orig_name == state.context_name
           r == edit_config_state_config_key(state.contexts, input1, orig_name, FALSE,
                                             default_context)
           a == refresh_contexts(
                    App([state EXCEPT !.contexts = r.section, !.context_name = input1], ui))
       IN  /\ last' = Last("edit_context", input1, r.result,
                           DKeys(state.contexts), orig_name, State_init)
           /\ IF r.result = "ok" THEN state' = a.state /\ ui' = a.ui
              ELSE UNCHANGED <<state, ui>>
    /\ Counted
    /\ UNCHANGED <<quit_vars, disk, clock, phase, session_vars>>

WsApp_delete_context(confirmed) ==
    /\ phase = "running"
    /\ LET selected == ui.contexts_list.value
           mid == delete_context(state, selected)
           \* list(...keys())[0] raises IndexError on an empty dict
           raises == mid.contexts = <<>>
           s2 == [mid EXCEPT !.context_name = mid.contexts[1].k]
           a == refresh_contexts(refresh_fields(App(s2, ui)))
           result == IF ~confirmed THEN "declined" ELSE IF raises THEN "raised" ELSE "ok"
       IN  /\ selected # ""
           /\ last' = Last("delete_context", selected, result,
                           DKeys(state.contexts), state.context_name,
                           IF confirmed THEN mid ELSE State_init)
           /\ IF result = "ok" THEN state' = a.state /\ ui' = a.ui
              ELSE IF result = "raised" THEN state' = mid /\ UNCHANGED ui
              ELSE UNCHANGED <<state, ui>>
    /\ Counted
    /\ UNCHANGED <<quit_vars, disk, clock, phase, session_vars>>

change_context(selected) ==
    /\ phase = "running"
    /\ selected \in ui.contexts_list.options \ {""}
    /\ LET u1 == [ui EXCEPT !.contexts_list.value = selected]
           a == refresh_context_variables(App([state EXCEPT !.context_name = selected], u1))
       IN  /\ state' = a.state
           /\ ui' = a.ui
           /\ last' = Last("change_context", selected, "ok",
                           DKeys(state.contexts), state.context_name, State_init)
    /\ Counted
    /\ UNCHANGED <<quit_vars, disk, clock, phase, session_vars>>

----------------------------------------------------------------------------
(* WsApp: start *)

on_mount ==
    /\ phase = "start"
    /\ LET a == refresh_configurations(refresh_fields(App(load(state, disk), ui)))
       IN  /\ state' = a.state
           /\ ui' = a.ui
    /\ phase' = "running"
    /\ last' = Last("load", "", IF load_raises(state, disk) THEN "raised" ELSE "ok",
                    DKeys(state.configurations), state.configuration_name,
                    load(state, disk))
    /\ UNCHANGED <<quit_vars, disk, clock, nops, session_vars>>

----------------------------------------------------------------------------
(* The Profile Store under the user's operations.  The application starts  *)
(* on a disk an earlier run left: no state file, the state file of a run   *)
(* that changed nothing, or of a run that renamed the Configuration and    *)
(* the Context and linked the Configuration to F1.  F1 exists, F2 does not.*)

\* json.dumps(state_data) of save, for a State st
state_data(st) ==
    [selected_configuration |-> st.configuration_name,
     globals |-> st.globals,
     contexts |-> st.contexts,
     selected_context |-> st.context_name,
     configurations |->
        [i \in 1..Len(st.configurations) |->
            IF RGet(st.configurations[i].v, "filename", "") # ""
            THEN Entry(st.configurations[i].k, [filename |-> st.configurations[i].v.filename])
            ELSE st.configurations[i]]]

\* the body of an externally linked Configuration, as save writes it
config_to_save(config) == RPop(config, "filename")

EarlierStates ==
    {State_init,
     [State_init EXCEPT
        !.configurations = <<Entry("a", [default_configuration EXCEPT !.filename = "F1"])>>,
        !.configuration_name = "a",
        !.contexts = <<Entry("x", default_context)>>,
        !.context_name = "x"]}

LinkedBody == config_to_save([default_configuration EXCEPT !.url = <<Lit("u1")>>])

StoreDisks ==
    {[f \in Files |->
        IF f = StateFile THEN p
        ELSE IF f = "F1" THEN [exists |-> TRUE, mtime |-> 1, content |-> Json(LinkedBody)]
        ELSE NoFile] :
     p \in {NoFile} \cup {[exists |-> TRUE, mtime |-> 1, content |-> Json(state_data(s))] :
                            s \in EarlierStates}}

InitStore ==
    /\ state = State_init
    /\ disk \in StoreDisks
    /\ clock = 2
    /\ ui = ui_init
    /\ phase = "start"
    /\ last = NoLast
    /\ nops = 0
    /\ connecting_params = <<>>
    /\ ws = "None"
    /\ task = "None"
    /\ dying = "None"
    /\ sess = NoSession
    /\ saving = NoSaving
    /\ env = NoEnv

NextStore ==
    \/ on_mount
    \/ \E n \in ConfigNames, f \in {"", "F1"} : on_add_configuration(n, f)
    \/ \E n \in ConfigNames : on_edit_configuration(n, "", TRUE)
    \/ \E n \in ConfigNames : on_edit_configuration(n, shown_filename(state), TRUE)
    \/ \E n \in ConfigNames, c \in BOOLEAN : on_edit_configuration(n, "F2", c)
    \/ \E c \in BOOLEAN : WsApp_delete_configuration(c)
    \/ \E n \in ConfigNames : change_configuration(n)
    \/ \E n \in ContextNames : on_add_context(n)
    \/ \E n \in ContextNames : on_edit_context(n)
    \/ \E c \in BOOLEAN : WsApp_delete_context(c)
    \/ \E n \in ContextNames : change_context(n)

SpecStore == InitStore /\ [][NextStore]_vars

----------------------------------------------------------------------------
(* The Profile Store: what holds of it *)

\* the keys of `keys` that remain once `name` is removed, in their order
Remaining(keys, name) == SelectSeq(keys, LAMBDA k : k # name)

DeletedConfiguration ==
    /\ last.op = "delete_configuration"
    /\ last.result = "ok"
    /\ \E i \in 1..Len(last.pre_keys) : last.pre_keys[i] = last.name

DeletedContext ==
    /\ last.op = "delete_context"
    /\ last.result = "ok"
    /\ \E i \in 1..Len(last.pre_keys) : last.pre_keys[i] = last.name

C8_NoDanglingPointer ==
    phase = "running" =>
        /\ DHas(state.configurations, state.configuration_name)
        /\ DHas(state.contexts, state.context_name)

\* C9: State.delete_configuration of the last remaining Configuration leaves
\* exactly one Configuration, named "default" and equal to the canonical
\* default Configuration, with configuration_name = "default"; and when the
\* delete handler has returned there is still exactly that one name, and it
\* is the active one.
C9_DeleteLastConfiguration ==
    (DeletedConfiguration /\ Len(last.pre_keys) = 1) =>
        /\ last.mid.configurations = <<Entry("default", default_configuration)>>
        /\ last.mid.configuration_name = "default"
        /\ DKeys(state.configurations) = <<"default">>
        /\ state.configuration_name = "default"

\* C9's case: the only Configuration, one not named "default", has been deleted.
C9_Witness ==
    /\ DeletedConfiguration
    /\ Len(last.pre_keys) = 1
    /\ last.name # "default"

\* C10: when delete_configuration or delete_context removes the active entry
\* and other entries remain, the active name becomes the first remaining key
\* in insertion order, as State's method returns and as the handler returns.
C10_FirstRemainingKey ==
    /\ (DeletedConfiguration /\ last.pre_active = last.name /\ Len(last.pre_keys) > 1) =>
            /\ last.mid.configuration_name = Remaining(last.pre_keys, last.name)[1]
            /\ state.configuration_name = Remaining(last.pre_keys, last.name)[1]
    /\ (DeletedContext /\ last.pre_active = last.name /\ Len(last.pre_keys) > 1) =>
            /\ last.mid.context_name = Remaining(last.pre_keys, last.name)[1]
            /\ state.context_name = Remaining(last.pre_keys, last.name)[1]

\* C10's case: the active Configuration was deleted and two others remain,
\* the first of which is not the first in alphabetical order.
C10_Witness ==
    /\ DeletedConfiguration
    /\ last.pre_active = last.name
    /\ Len(last.pre_keys) = 3
    /\ Remaining(last.pre_keys, last.name) = <<"b", "a">>

----------------------------------------------------------------------------
(* Variable Resolver *)

\* the escape $$ of string.Template, as a piece of a template
Escaped == [t |-> "esc", s |-> "$$"]

\* Template(template).safe_substitute(variables): a placeholder with a value
\* becomes the value, $$ becomes $, everything else stays
render_template(template, variables) ==
    [i \in 1..Len(template) |->
        IF template[i].t = "var" /\ DHas(variables, template[i].s)
        THEN Lit(DGet(variables, template[i].s))
        ELSE IF template[i].t = "esc" THEN Lit("$")
        ELSE template[i]]

RECURSIVE dict_update(_, _, _)
\* d.update(other), from entry i of other on
dict_update(d, other, i) ==
    IF i > Len(other) THEN d
    ELSE dict_update(DSet(d, other[i].k, other[i].v), other, i + 1)

\* faulty variant of get_variables: the globals are applied last
get_variables_globals_last(st) ==
    dict_update(dict_update(<<>>,
                    RGet(DGet(get_context(st).contexts, get_context(st).context_name),
                         "context_variables", <<>>), 1),
                st.globals, 1)

\* get_variables(): the table (it reads the Context through get_context)
get_variables(st) ==
    dict_update(dict_update(<<>>, st.globals, 1),
                RGet(DGet(get_context(st).contexts, get_context(st).context_name),
                     "context_variables", <<>>), 1)

----------------------------------------------------------------------------
(* WsApp: the switches and inputs that edit the active Configuration *)

Edited == nops < MaxEdits /\ nops' = nops + 1

\* a Switch.Changed handler: set_value(key, message.value)
switch_changed(key, value) ==
    /\ phase = "running"
    /\ Edited
    /\ state' = set_value(state, key, value)
    /\ last' = Last(key, "", "ok", <<>>, "", State_init)
    /\ UNCHANGED <<quit_vars, disk, clock, ui, phase, session_vars>>

follow_redirects_switch(value) == switch_changed("follow_redirects", value)

autoping_switch(value) == switch_changed("autoping", value)

auto_reconnect_switch(value) == switch_changed("auto_reconnect", value)

ssl_check_switch(value) == switch_changed("ssl_check", value)

template_url_switch(value) == switch_changed("template_url", value)

template_headers_switch(value) == switch_changed("template_headers", value)

template_data_switch(value) == switch_changed("template_data", value)

\* get_current_text()[key] = value: the State after it
set_current_text(st, key, value) ==
    LET s1 == get_current_text(st)
        cfg == configuration(s1)
        text == RSet(DGet(cfg.texts, cfg.text_selected), key, value)
    IN  set_value(s1, "texts", DSet(cfg.texts, cfg.text_selected, text))

\* an Input.Changed or Select.Changed handler that also sticks to the text
stick_changed(key, value) ==
    /\ phase = "running"
    /\ Edited
    /\ LET s1 == set_value(state, key, value)
       IN  state' = IF get_value(s1, "stick_url_to_text", FALSE)
                    THEN set_current_text(s1, key, value)
                    ELSE s1
    /\ last' = Last(key, "", "ok", <<>>, "", State_init)
    /\ UNCHANGED <<quit_vars, disk, clock, ui, phase, session_vars>>

address_change(value) == stick_changed("url", value)

change_method(value) == stick_changed("method", value)

\* edit_config_state_config_key_value(section) with orig_key_name None
on_add_header_menu_button_message(input1, input2) ==
    /\ phase = "running"
    /\ Counted
    /\ LET s1 == get_configuration(state)
           headers == RGet(configuration(s1), "headers", <<>>)
           refused == headers # <<>> /\ DHas(headers, input1)
       IN  /\ state' = IF refused THEN s1
                       ELSE set_value(s1, "headers", DSet(headers, input1, input2))
           /\ last' = [Last("add_header", input1, IF refused THEN "refused" ELSE "ok",
                            DKeys(headers), "", State_init)
                            EXCEPT !.returns = IF refused THEN NonePair
                                               ELSE val(input1, input2)]
    /\ UNCHANGED <<quit_vars, disk, clock, ui, phase, session_vars>>

----------------------------------------------------------------------------
(* WsApp: the Session Manager.  The connect() task runs from one await to  *)
(* the next in one step:                                                   *)
(*   "created"    scheduled by create_task, not yet run                    *)
(*   "connecting" in connect_ws, awaiting session.ws_connect               *)
(*   "open"       in connect_ws, awaiting the next frame                   *)
(*   "requesting" in connect_http, awaiting session.request                *)
(*   "sleeping"   awaiting asyncio.sleep(1)                                *)
(*   "done"       returned;  "cancelled"  ended by task.cancel()           *)

LiveTask == {"created", "connecting", "open", "requesting", "sleeping"}

RECURSIVE connect_headers(_, _, _, _, _)
\* the loop of get_connect_params over the headers, from entry i on
connect_headers(headers, source, template, variables, i) ==
    IF i > Len(source) THEN headers
    ELSE LET key == IF template THEN render_template(source[i].k, variables) ELSE source[i].k
             value == IF template THEN render_template(source[i].v, variables) ELSE source[i].v
         IN  connect_headers(DSet(headers, key, value), source, template, variables, i + 1)

\* get_connect_params(): the dict.  The address widget holds the active
\* Configuration's url (refresh_fields and address_change keep the two equal).
get_connect_params(st) ==
    LET s1 == get_configuration(st)
        cfg == configuration(s1)
        addr == cfg.url
    IN  [url |-> IF RGet(cfg, "template_url", FALSE)
                 THEN render_template(addr, get_variables(s1))
                 ELSE addr,
         headers |-> connect_headers(<<>>, RGet(cfg, "headers", <<>>),
                                     RGet(cfg, "template_headers", FALSE),
                                     get_variables(s1), 1),
         autoping |-> RGet(cfg, "autoping", FALSE),
         ssl_check |-> RGet(cfg, "ssl_check", FALSE),
         method |-> RGet(cfg, "method", "WS"),
         follow_redirects |-> RGet(cfg, "follow_redirects", FALSE)]

\* the State after get_connect_params: its reads repair dangling names
after_get_connect_params(st) ==
    LET s1 == get_configuration(st)
        cfg == configuration(s1)
    IN  IF RGet(cfg, "template_url", FALSE)
           \/ (RGet(cfg, "template_headers", FALSE) /\ RGet(cfg, "headers", <<>>) # <<>>)
        THEN get_context(s1)
        ELSE s1

\* ssl=None if ssl_check else False
ssl_argument(ssl_check) == IF ssl_check THEN "None" ELSE "False"

\* the arguments connect_ws gives session.ws_connect
ws_connect_arguments(p) ==
    [call |-> "ws_connect", url |-> p.url, headers |-> p.headers,
     autoping |-> p.autoping, ssl |-> ssl_argument(p.ssl_check)]

\* the text of the SendTextArea: refresh_fields and on_text_area_changed keep
\* it equal to the current text's
textarea(st) ==
    LET s1 == get_current_text(st)
        cfg == configuration(s1)
    IN  RGet(DGet(cfg.texts, cfg.text_selected), "text", <<>>)

\* faulty variant of body: the text is rendered when the url is
body_by_url_toggle(st) ==
    IF get_value(st, "template_url", FALSE)
    THEN render_template(textarea(st), get_variables(st))
    ELSE textarea(st)

\* the text that is sent, as send_message and connect_http prepare it
body(st) ==
    IF get_value(st, "template_data", FALSE)
    THEN render_template(textarea(st), get_variables(st))
    ELSE textarea(st)

\* the arguments connect_http gives session.request
request_arguments(p, st) ==
    [call |-> "request", method |-> p.method, url |-> p.url, headers |-> p.headers,
     ssl |-> ssl_argument(p.ssl_check),
     data |-> body(st),
     allow_redirects |-> get_value(st, "follow_redirects", FALSE)]

\* faulty variant of loop_ends: the test of auto_reconnect is reversed
loop_ends_reversed(auto_reconnect, method) == auto_reconnect \/ method # "WS"

\* faulty variant of loop_ends: the method is not looked at
loop_ends_any_method(auto_reconnect, method) == ~auto_reconnect

\* the test that ends the loop of connect() after a session
loop_ends(auto_reconnect, method) == ~auto_reconnect \/ method # "WS"

\* an error line is logged
error_logged(se) == [se EXCEPT !.errors = @ + 1]

\* 'Connected to' is logged
on_connected(se) == [se EXCEPT !.link = IF @ = "down" THEN "up" ELSE "broken"]

\* 'Disconnected' is logged
on_disconnected(se) == [se EXCEPT !.link = IF @ = "up" THEN "down" ELSE "broken"]

\* faulty variant of cancelled: the running task is left alone
cancelled_never(t) == t

\* self._connect_task.cancel(): what becomes of the task
cancelled(t) == IF t \in LiveTask THEN "cancelled" ELSE t

\* faulty variant of finally_runs: as if connect_ws's try began before
\* session.ws_connect
finally_runs_early(t) == t \in {"connecting", "open"}

\* a task cancelled at t is inside connect_ws's try, whose finally runs
finally_runs(t) == t = "open"

\* `if self._connecting_params: self._connecting_params = None; return'
returns_early(params) == params # <<>>

\* faulty variant of button_label: the label is left as it is shown
button_label_kept(t, shown) == shown

\* `if self._connect_task: button.label = 'Connect'': the label after it
button_label(t, shown) == IF t # "None" THEN "Connect" ELSE shown

\* the body of on_connect_button_message: cancel whatever runs, or snapshot
\* and start; se is the history so far
pressed(se) ==
    LET label == button_label(task, ui.connect)
        task1 == IF task # "None" THEN cancelled(task) ELSE task
        dying1 == IF finally_runs(task) /\ task1 = "cancelled" THEN "open" ELSE dying
        ws1 == IF task # "None" THEN "None" ELSE ws
        live1 == IF task \in LiveTask /\ task1 = "cancelled" THEN se.live - 1 ELSE se.live
        p == get_connect_params(state)
    IN  /\ IF returns_early(connecting_params)
           THEN /\ connecting_params' = <<>>
                /\ ui' = [ui EXCEPT !.connect = label]
                /\ task' = task1
                /\ sess' = [se EXCEPT !.presses = @ + 1, !.live = live1]
                /\ UNCHANGED state
           ELSE /\ connecting_params' = <<p>>
                /\ ui' = [ui EXCEPT !.connect = "Disconnect"]
                /\ task' = "created"
                /\ state' = after_get_connect_params(state)
                /\ sess' = [NoSession EXCEPT !.presses = se.presses + 1,
                                             !.snapshot = <<p>>,
                                             !.link = se.link,
                                             !.sends = se.sends,
                                             !.socket = se.socket,
                                             !.pings = se.pings,
                                             !.live = live1 + 1]
        /\ dying' = dying1
        /\ ws' = ws1

\* the connect button
on_connect_button_message ==
    /\ phase = "running"
    /\ sess.presses < MaxPresses
    /\ pressed(sess)
    /\ last' = Last("connect_button", "", "ok", <<>>, "", State_init)
    /\ UNCHANGED <<quit_vars, disk, clock, phase, nops>>

\* how often the user presses send
MaxSends == 2

\* the send button: the text goes to the socket self._ws refers to (a socket
\* that has closed raises, and 'Error' is logged); when the method is not WS
\* the connect button is pressed
send_message ==
    /\ phase = "running"
    /\ sess.sends < MaxSends
    /\ sess.presses < MaxPresses
    /\ LET se0 == [sess EXCEPT !.sends = @ + 1]
           se1 == IF ws = "None" THEN se0
                  ELSE IF ws = "open"
                  THEN [se0 EXCEPT !.written = @ + 1, !.sent = <<body(state)>>]
                  ELSE error_logged(se0)
       IN  IF get_value(state, "method", "WS") # "WS"
           THEN pressed(se1)
           ELSE /\ sess' = se1
                /\ state' = get_configuration(state)
                /\ UNCHANGED <<ui, connecting_params, ws, task, dying>>
    /\ last' = Last("send_message", "", "ok", <<>>, "", State_init)
    /\ UNCHANGED <<quit_vars, disk, clock, phase, nops>>

\* the CancelledError reaches the cancelled task: connect_ws's finally runs
cancel_delivered ==
    /\ dying # "None"
    /\ dying' = "None"
    /\ sess' = on_disconnected([sess EXCEPT !.socket = "closed"])
    /\ UNCHANGED <<state, quit_vars, disk, clock, ui, phase, connecting_params, ws, task, last, nops>>

\* the task returns, or ends with an exception
returned(se) == [se EXCEPT !.live = @ - 1]

\* the top of the loop of connect(), down to its first await; se is the
\* history so far
loop_iteration(se) ==
    LET p == connecting_params[1]
    IN  IF connecting_params = <<>>
        THEN /\ task' = "done"
             /\ sess' = returned(se)
             /\ UNCHANGED state
        ELSE IF p.method = "WS"
        THEN /\ se.attempts < MaxAttempts
             /\ task' = "connecting"
             /\ sess' = [se EXCEPT !.attempts = @ + 1, !.used = <<ws_connect_arguments(p)>>]
             /\ UNCHANGED state
        ELSE /\ task' = "requesting"
             /\ sess' = [se EXCEPT !.requests = @ + 1,
                                   !.used = <<request_arguments(p, state)>>]
             /\ state' = get_configuration(state)

\* the task's first step
connect_started ==
    /\ task = "created"
    /\ dying = "None"
    /\ loop_iteration(sess)
    /\ UNCHANGED <<quit_vars, disk, clock, ui, phase, connecting_params, ws, dying, last, nops>>

\* after a session the loop is left: auto_reconnect and the method are read
leaves == loop_ends(get_value(state, "auto_reconnect", FALSE), connecting_params[1].method)

\* after a session: leave the loop, or sleep before the next iteration
after_session ==
    /\ state' = get_configuration(state)
    /\ IF leaves
       THEN /\ ui' = [ui EXCEPT !.connect = "Connect"]
            /\ connecting_params' = <<>>
            /\ task' = "done"
       ELSE /\ task' = "sleeping"
            /\ UNCHANGED <<ui, connecting_params>>

\* the history after a session that ended without an exception
settled(se) == IF leaves THEN returned(se) ELSE se

\* what the transport raises: connection refused, TLS failure, I/O error
TransportErrors == {"ClientConnectorError", "ClientSSLError", "ConnectionResetError"}

\* faulty variant of except_Exception: only aiohttp's own errors are caught
except_ClientError(exc) == exc \in {"ClientConnectorError", "ClientSSLError"}

\* except Exception: every error but the task's own CancelledError
except_Exception(exc) == exc # "CancelledError"

\* after `try: ... except Exception as exc: write('Error')' in connect():
\* the reconnect decision, or the task ends with the exception
after_try(exc) ==
    IF except_Exception(exc)
    THEN after_session
    ELSE /\ task' = "raised"
         /\ UNCHANGED <<state, ui, connecting_params>>

\* the history after a session that ended with exc
faulted(se, exc) ==
    LET se1 == [se EXCEPT !.ends = @ + 1, !.faults = @ + 1]
    IN  IF except_Exception(exc) THEN settled(error_logged(se1)) ELSE returned(se1)

\* session.ws_connect returns a socket
ws_connected ==
    /\ task = "connecting"
    /\ task' = "open"
    /\ ws' = "open"
    /\ sess' = on_connected([sess EXCEPT !.socket = "open", !.failed = FALSE])
    /\ UNCHANGED <<state, quit_vars, disk, clock, ui, phase, connecting_params, dying, last, nops>>

\* session.ws_connect raises
ws_connect_failed(exc) ==
    /\ task = "connecting"
    /\ after_try(exc)
    /\ sess' = faulted(sess, exc)
    /\ UNCHANGED <<quit_vars, disk, clock, phase, ws, dying, last, nops>>

\* how many frames a socket delivers
MaxFrames == 2

FrameTypes == {"TEXT", "PONG", "ERROR"}

\* faulty variant of receive: the socket stays open after an error frame
receive_stays_open(type) == "open"

\* ws.receive() under `async for msg in ws': the state of the socket when it
\* hands the frame over (aiohttp closes the socket before it returns an
\* ERROR message, and the next receive ends the iteration)
receive(type) == IF type = "ERROR" THEN "closed" ELSE "open"

\* process_incomming_ws_message: the line it logs
process_incomming_ws_message(se, type) ==
    IF type = "ERROR"
    THEN error_logged([se EXCEPT !.failed = TRUE])
    ELSE [se EXCEPT !.frames = @ + 1]

\* a frame arrives on the open socket and is processed
ws_frame_received(type) ==
    /\ task = "open"
    /\ sess.socket = "open"
    /\ sess.frames + (IF sess.failed THEN 1 ELSE 0) < MaxFrames
    /\ LET se1 == process_incomming_ws_message(sess, type)
       IN  sess' = [se1 EXCEPT !.socket = receive(type)]
    /\ ws' = IF ws = "open" THEN receive(type) ELSE ws
    /\ UNCHANGED <<state, quit_vars, disk, clock, ui, phase, connecting_params, task, dying,
                   last, nops>>

\* the remote side closes the socket, or the socket has closed: the frame
\* loop ends, 'Closed by remote side' is logged
ws_closed_by_remote ==
    /\ task = "open"
    /\ after_session
    /\ ws' = IF ws = "open" THEN "closed" ELSE ws
    /\ sess' = on_disconnected(settled([sess EXCEPT !.ends = @ + 1, !.closes = @ + 1,
                                                    !.socket = "closed"]))
    /\ UNCHANGED <<quit_vars, disk, clock, phase, dying, last, nops>>

\* the frame loop raises: connect_ws's own except and finally
ws_failed(exc) ==
    /\ task = "open"
    /\ sess.socket = "open"
    /\ after_try(exc)
    /\ ws' = IF ws = "open" THEN "closed" ELSE ws
    /\ sess' = on_disconnected(faulted([sess EXCEPT !.socket = "closed"], exc))
    /\ UNCHANGED <<quit_vars, disk, clock, phase, dying, last, nops>>

\* asyncio.sleep(1) returns: "Reconnecting to", and the next iteration
reconnect ==
    /\ task = "sleeping"
    /\ IF connecting_params = <<>>
       THEN task' = "done" /\ sess' = returned(sess) /\ UNCHANGED state
       ELSE loop_iteration([sess EXCEPT !.reconnects = @ + 1])
    /\ UNCHANGED <<quit_vars, disk, clock, ui, phase, connecting_params, ws, dying, last, nops>>

\* the response arrives and is logged
http_completed ==
    /\ task = "requesting"
    /\ after_session
    /\ sess' = settled(sess)
    /\ UNCHANGED <<quit_vars, disk, clock, phase, ws, dying, last, nops>>

\* session.request raises, or the status is an error (raise_for_status)
http_failed(exc) ==
    /\ task = "requesting"
    /\ after_try(exc)
    /\ sess' = faulted(sess, exc)
    /\ UNCHANGED <<quit_vars, disk, clock, phase, ws, dying, last, nops>>

\* how often the user presses ping
MaxPings == 2

\* the ping button: a ping goes to the socket self._ws refers to and 'Ping
\* sent' is logged; a socket that has closed raises, and 'Error' is logged
ping ==
    /\ phase = "running"
    /\ sess.pings < MaxPings
    /\ LET se0 == [sess EXCEPT !.pings = @ + 1]
       IN  sess' = IF ws = "None" THEN se0
                   ELSE IF ws = "open" THEN [se0 EXCEPT !.ping_lines = @ + 1]
                   ELSE error_logged(se0)
    /\ UNCHANGED <<state, quit_vars, disk, clock, ui, phase, connecting_params, ws, task, dying,
                   last, nops>>

----------------------------------------------------------------------------
(* The Session Manager under the user's presses and edits.  The            *)
(* application starts on the state file of a run that left two             *)
(* Configurations which differ in every field a connection reads.          *)

OtherConfiguration ==
    [default_configuration EXCEPT
        !.url = <<Lit("u1")>>,
        !.method = "GET",
        !.headers = <<Entry(<<Lit("h")>>, <<Lit("v")>>)>>,
        !.autoping = TRUE,
        !.ssl_check = FALSE,
        !.follow_redirects = FALSE]

SessionDisk(selected) ==
    [f \in Files |->
        IF f = StateFile
        THEN [exists |-> TRUE, mtime |-> 1,
              content |-> Json(state_data(
                  [State_init EXCEPT
                      !.configurations = <<Entry("default", default_configuration),
                                           Entry("a", OtherConfiguration)>>,
                      !.configuration_name = selected]))]
        ELSE NoFile]

InitSession ==
    /\ state = State_init
    /\ disk \in {SessionDisk("default"), SessionDisk("a")}
    /\ clock = 2
    /\ ui = ui_init
    /\ phase = "start"
    /\ last = NoLast
    /\ nops = 0
    /\ connecting_params = <<>>
    /\ ws = "None"
    /\ task = "None"
    /\ dying = "None"
    /\ sess = NoSession
    /\ saving = NoSaving
    /\ env = NoEnv

NextSession ==
    \/ on_mount
    \/ on_connect_button_message
    \/ cancel_delivered
    \/ connect_started
    \/ ws_connected
    \/ \E exc \in TransportErrors : ws_connect_failed(exc)
    \/ ws_closed_by_remote
    \/ \E exc \in TransportErrors : ws_failed(exc)
    \/ reconnect
    \/ http_completed
    \/ \E exc \in TransportErrors : http_failed(exc)
    \/ \E v \in BOOLEAN : follow_redirects_switch(v)
    \/ \E v \in BOOLEAN : autoping_switch(v)
    \/ \E v \in BOOLEAN : auto_reconnect_switch(v)
    \/ \E v \in BOOLEAN : ssl_check_switch(v)
    \/ \E v \in Urls : address_change(v)
    \/ \E v \in Methods : change_method(v)
    \/ nops < MaxEdits /\ on_add_header_menu_button_message(<<Lit("h2")>>, <<Lit("v")>>)
    \/ nops < MaxEdits /\ \E n \in ConfigNames : change_configuration(n)

SpecSession == InitSession /\ [][NextSession]_vars

----------------------------------------------------------------------------
(* Claims about the Session Manager *)

\* a WebSocket session of the running task ends other than by a user cancel
SessionEnds == task \in {"connecting", "open"} /\ sess'.ends = sess.ends + 1

\* the counters of one connect action, at every moment of it
C1_Counted ==
    /\ sess.reconnects = (IF sess.attempts = 0 THEN 0 ELSE sess.attempts - 1)
    /\ task \in {"connecting", "open"} => sess.reconnects = sess.ends
    /\ task = "sleeping" => sess.reconnects + 1 = sess.ends

\* an end with auto_reconnect set starts one backoff delay
C1_Backoff ==
    (SessionEnds /\ get_value(state, "auto_reconnect", FALSE)) =>
        /\ task' = "sleeping"
        /\ connecting_params' = connecting_params

\* a backoff delay ends in one new attempt with the snapshot, or in a cancel
C1_OneAttempt ==
    (task = "sleeping" /\ task' # "sleeping") =>
        \/ /\ task' = "connecting"
           /\ sess'.attempts = sess.attempts + 1
           /\ sess'.reconnects = sess.reconnects + 1
           /\ sess'.used = <<ws_connect_arguments(sess.snapshot[1])>>
        \/ /\ task' = "cancelled"
           /\ connecting_params' = <<>>

\* once the parameters are cleared, the connect action attempts nothing more
C1_Cleared ==
    (connecting_params = <<>> /\ sess'.presses = sess.presses) =>
        /\ sess'.attempts = sess.attempts
        /\ sess'.reconnects = sess.reconnects
        /\ sess'.requests = sess.requests
        /\ task' \notin LiveTask

\* C1: with method WS and auto_reconnect set, every end of a session that is
\* not a user cancel (remote close, error, failed connect) starts one backoff
\* delay, and the delay is followed by exactly one new connect attempt, so
\* that n ends give n reconnect attempts (three remote closes give three);
\* when the user clears the connecting parameters, during a delay or at any
\* other moment, that connect action makes no further attempt.
C1_Reconnects ==
    /\ []C1_Counted
    /\ [][C1_Backoff /\ C1_OneAttempt /\ C1_Cleared]_vars

\* C1's case: three remote closes in a row, each followed by its reconnect.
C1_Witness ==
    /\ sess.closes = 3
    /\ sess.ends = 3
    /\ sess.reconnects = 3
    /\ task = "connecting"

\* C1's second case: the parameters were cleared during the second delay.
C1_WitnessCancel ==
    /\ task = "cancelled"
    /\ connecting_params = <<>>
    /\ sess.ends = 2
    /\ sess.reconnects = 1

\* C2: a connect action whose method is not WS issues one HTTP request and
\* never a second one, whatever auto_reconnect is and whether or not the
\* request fails; it opens no WebSocket and waits for no backoff delay; and
\* when its cycle has completed the connecting parameters are cleared and the
\* connect button reads "Connect".
C2_OneRequest ==
    (sess.snapshot # <<>> /\ sess.snapshot[1].method # "WS") =>
        /\ sess.requests <= 1
        /\ sess.attempts = 0
        /\ sess.reconnects = 0
        /\ task \notin {"connecting", "open", "sleeping"}
        /\ task = "done" =>
            /\ sess.requests = 1
            /\ connecting_params = <<>>
            /\ ui.connect = "Connect"

\* C2's case: a GET request has failed while auto_reconnect is set.
C2_Witness ==
    /\ sess.snapshot # <<>>
    /\ sess.snapshot[1].method = "GET"
    /\ task = "done"
    /\ sess.ends = 1
    /\ get_value(state, "auto_reconnect", FALSE)

\* C3: what a session was last given (url, method, headers, autoping, the
\* TLS argument, the follow-redirects flag) is what the connect action
\* snapshotted, whatever was edited or selected since.
C3_SnapshotUsed ==
    (sess.used # <<>>) =>
        LET u == sess.used[1]
            p == sess.snapshot[1]
        IN  /\ u.url = p.url
            /\ u.headers = p.headers
            /\ u.ssl = ssl_argument(p.ssl_check)
            /\ u.call = "ws_connect" => u.autoping = p.autoping
            /\ u.call = "request" =>
                /\ u.method = p.method
                /\ u.allow_redirects = p.follow_redirects

----------------------------------------------------------------------------
(* State.save, run by action_quit.  save() runs without a pause from one   *)
(* confirm_request to the next; a run of it is [dk, now, sv]: the disk and *)
(* the clock it leaves, and where it stands.                               *)

\* the three ways ConfirmScreen is dismissed: True, False, None
Answers == {"confirm", "no", "cancel"}

\* result is None
is_abort(result) == result = "cancel"

\* faulty variant of is_skip: every answer but None overwrites the file
is_skip_never(result) == FALSE

\* not result
is_skip(result) == result = "no"

\* self.files_mtime.get(filename) != os.path.getmtime(filename)
mtime_differs(st, dk, filename) == st.files_mtime[filename] # dk[filename].mtime

\* what save writes to the state file
state_file_data(st, new_configurations) ==
    [selected_configuration |-> st.configuration_name,
     globals |-> st.globals,
     contexts |-> st.contexts,
     selected_context |-> st.context_name,
     configurations |-> new_configurations]

\* how far shutil.copy(src, dst) has come: dst opened for writing (and so
\* truncated), some of the bytes copied, all of them copied
CopyStages == {"opened", "copying", "copied"}

\* what dst holds when the process is killed at that stage of the copy
copy_killed(content, stage) ==
    IF stage = "opened" THEN [kind |-> "empty"]
    ELSE IF stage = "copying" THEN [kind |-> "partial"]
    ELSE content

\* what another program leaves in file f
OtherContent(f) ==
    IF f = StateFile THEN Json(state_data(State_init))
    ELSE Json(config_to_save(OtherConfiguration))

\* a write of save, logged with what its check and its prompt gave; the
\* process may be killed in its copy, and another program may write the file
\* between save's comparison of the times (or the answer to its prompt) and
\* its copy
save_write(run, st, filename, content, answer) ==
    IF run.sv.crash.at = Len(run.sv.writes) + 1
    THEN [dk |-> WriteFile(run.dk, filename, copy_killed(content, run.sv.crash.stage),
                           run.now),
          now |-> run.now + 1,
          sv |-> [run.sv EXCEPT !.pc = "killed", !.file = filename, !.result = "killed"]]
    ELSE LET raced == run.sv.race = Len(run.sv.writes) + 1
             dk1 == IF raced
                    THEN WriteFile(run.dk, filename, OtherContent(filename), run.now)
                    ELSE run.dk
             now1 == IF raced THEN run.now + 1 ELSE run.now
         IN  [dk |-> WriteFile(dk1, filename, content, now1),
              now |-> now1 + 1,
              sv |-> [run.sv EXCEPT !.writes = Append(@,
                         [file |-> filename,
                          differs |-> mtime_differs(st, run.dk, filename),
                          answer |-> answer,
                          raced |-> raced])]]

\* save returns (or raises), unless the process was killed
save_returns(run, result) ==
    IF run.sv.pc = "killed" THEN run
    ELSE [run EXCEPT !.sv.pc = "done", !.sv.result = result]

\* save awaits confirm_request about filename
save_prompts(run, filename) ==
    [run EXCEPT !.sv.pc = "prompt", !.sv.file = filename]

\* the end of save: the state file.  answer is "" before any prompt about it
save_state_file(run, st, answer) ==
    IF answer = "" /\ ~path_exists(run.dk, StateFile)
    THEN save_returns(run, "raised")
    ELSE IF answer = "" /\ mtime_differs(st, run.dk, StateFile)
    THEN save_prompts(run, StateFile)
    ELSE IF answer # "" /\ is_abort(answer)
    THEN save_returns(run, "None")
    ELSE IF answer # "" /\ is_skip(answer)
    THEN save_returns(run, "True")
    ELSE save_returns(
            save_write(run, st, StateFile,
                       Json(state_file_data(st, run.sv.new_configurations)), answer),
            "True")

RECURSIVE save_configurations(_, _, _)
\* the loop of save over the configurations, from entry run.sv.i on; answer is
\* what the prompt about that entry's file gave, "" when none was shown
save_configurations(run, st, answer) ==
    LET i == run.sv.i
        key == st.configurations[i].k
        config == st.configurations[i].v
        filename == RGet(config, "filename", "")
        next == [run EXCEPT !.sv.i = i + 1]
        linked == [next EXCEPT !.sv.new_configurations =
                        Append(@, Entry(key, [filename |-> filename]))]
    IN  IF run.sv.pc = "killed"
        THEN run
        ELSE IF i > Len(st.configurations)
        THEN save_state_file(run, st, "")
        ELSE IF filename = ""
        THEN save_configurations(
                [next EXCEPT !.sv.new_configurations = Append(@, Entry(key, config))], st, "")
        ELSE IF answer = "" /\ ~path_exists(run.dk, filename)
        THEN save_configurations(linked, st, "")
        ELSE IF answer = "" /\ mtime_differs(st, run.dk, filename)
        THEN save_prompts(run, filename)
        ELSE IF answer # "" /\ is_abort(answer)
        THEN save_returns(run, "None")
        ELSE IF answer # "" /\ is_skip(answer)
        THEN save_configurations(next, st, "")
        ELSE save_configurations(
                save_write(linked, st, filename, Json(config_to_save(config)), answer),
                st, "")

\* action_quit after a step of save: wait for the answer, go on, or exit
save_stepped(run) ==
    /\ disk' = run.dk
    /\ clock' = run.now
    /\ saving' = run.sv
    /\ phase' = IF run.sv.pc = "prompt" THEN "saving"
                ELSE IF run.sv.pc = "killed" THEN "killed"
                ELSE IF run.sv.result = "None" THEN "running"
                ELSE "exited"

\* how many times another program writes a file
MaxWrites == 1

\* how many times the user presses the quit key
MaxSaves == 2

\* save() from its start to its first await, its return, or the kill; crash
\* tells in which copy of this save, if in any, the process is killed
save_begins(crash, race) ==
    LET sv == [NoSaving EXCEPT !.i = 1, !.crash = crash, !.race = race,
                               !.began = <<[state |-> state, disk |-> disk, env |-> env,
                                            nops |-> nops]>>]
        run == [dk |-> disk, now |-> clock, sv |-> sv]
    IN  IF ~state.loaded THEN save_returns(run, "None")
        ELSE save_configurations(run, state, "")

save(crash) == save_begins(crash, 0)

\* the quit key: save, and exit if save returns True
action_quit ==
    /\ phase = "running"
    /\ env.saves < MaxSaves
    /\ env' = [env EXCEPT !.saves = @ + 1]
    /\ save_stepped(save(NoCrash))
    /\ UNCHANGED <<state, ui, session_vars, last, nops>>

\* the quit key, in a run whose process is killed while save copies to the
\* at-th file it writes (at once, or after the prompts it waits at)
killed_in_save(at, stage) ==
    /\ phase = "running"
    /\ env.saves < MaxSaves
    /\ env' = [env EXCEPT !.saves = @ + 1]
    /\ save([at |-> at, stage |-> stage]).sv.pc \in {"killed", "prompt"}
    /\ save_stepped(save([at |-> at, stage |-> stage]))
    /\ UNCHANGED <<state, ui, session_vars, last, nops>>

\* the quit key, in a run in which another program writes the at-th file
\* save writes after save has compared the file's times and before it copies
written_in_save(at) ==
    /\ phase = "running"
    /\ env.saves < MaxSaves
    /\ env.writes < MaxWrites
    /\ env' = [env EXCEPT !.saves = @ + 1, !.writes = @ + 1]
    /\ \E i \in DOMAIN save_begins(NoCrash, at).sv.writes :
            save_begins(NoCrash, at).sv.writes[i].raced
    /\ save_stepped(save_begins(NoCrash, at))
    /\ UNCHANGED <<state, ui, session_vars, last, nops>>

\* the user dismisses the prompt of save
confirm_request_answered(result) ==
    /\ phase = "saving"
    /\ saving.pc = "prompt"
    /\ LET sv == [saving EXCEPT !.pc = "running",
                                !.prompts = Append(@, [file |-> saving.file, answer |-> result])]
           run == [dk |-> disk, now |-> clock, sv |-> sv]
       IN  save_stepped(IF saving.file = StateFile
                        THEN save_state_file(run, state, result)
                        ELSE save_configurations(run, state, result))
    /\ UNCHANGED <<state, ui, session_vars, env, last, nops>>

----------------------------------------------------------------------------
(* The environment: other programs write the files; the user starts the    *)
(* application again.                                                      *)

\* how many times the application runs
MaxRuns == 2

external_write(f) ==
    /\ env.writes < MaxWrites
    /\ phase # "exited"
    /\ disk' = WriteFile(disk, f, OtherContent(f), clock)
    /\ clock' = clock + 1
    /\ env' = [env EXCEPT !.writes = @ + 1]
    /\ UNCHANGED <<state, ui, phase, session_vars, saving, last, nops>>

\* main() again: a fresh State on the files as they are
restart ==
    /\ phase = "exited"
    /\ env.runs < MaxRuns
    /\ env' = [env EXCEPT !.runs = @ + 1]
    /\ state' = State_init
    /\ ui' = ui_init
    /\ phase' = "start"
    /\ last' = NoLast
    /\ connecting_params' = <<>>
    /\ ws' = "None"
    /\ task' = "None"
    /\ dying' = "None"
    /\ sess' = NoSession
    /\ UNCHANGED <<disk, clock, saving, nops>>

InitPersist == InitStore

\* the user changes the Store in the first run only, MaxEdits times
FirstRun == env.runs = 1 /\ nops < MaxEdits

NextPersist ==
    \/ on_mount
    \/ FirstRun /\ \E f \in {"", "F1"} : on_add_configuration("b", f)
    \/ FirstRun /\ \E n \in {"a", "b"} : on_edit_configuration(n, "", TRUE)
    \/ FirstRun /\ \E c \in BOOLEAN : on_edit_configuration("b", "F2", c)
    \/ FirstRun /\ WsApp_delete_configuration(TRUE)
    \/ FirstRun /\ \E n \in ConfigNames : change_configuration(n)
    \/ FirstRun /\ on_add_context("y")
    \/ FirstRun /\ \E v \in BOOLEAN : autoping_switch(v)
    \/ action_quit
    \/ \E result \in Answers : confirm_request_answered(result)
    \/ \E f \in Files : external_write(f)
    \/ restart

SpecPersist == InitPersist /\ [][NextPersist]_vars

----------------------------------------------------------------------------
(* Claims about persistence *)

\* this step is save's, not another program's
SaveStep == env'.writes = env.writes

\* the prompt of save is being answered with `result`
Answering(result) ==
    /\ saving.pc = "prompt"
    /\ Len(saving'.prompts) = Len(saving.prompts) + 1
    /\ saving'.prompts[Len(saving'.prompts)] = [file |-> saving.file, answer |-> result]

\* every write save has made to a file whose time differed was confirmed
C4_Confirmed ==
    \A i \in DOMAIN saving.writes :
        saving.writes[i].differs => saving.writes[i].answer = "confirm"

\* save changes a file only if its time is the recorded one or if the prompt
\* about it is being answered "confirm"
C4_WriteChecked ==
    \A f \in Files :
        (SaveStep /\ disk'[f] # disk[f]) =>
            \/ ~mtime_differs(state, disk, f)
            \/ Answering("confirm") /\ saving.file = f

\* an answer of skip or abort leaves the file it is about as it is
C4_Declined ==
    (Answering("no") \/ Answering("cancel")) => disk'[saving.file] = disk[saving.file]

\* C4: during save, a file (an externally linked Configuration's file or the
\* state file) whose modification time differs from the one recorded at load
\* is overwritten only if the prompt about it was shown and answered with
\* overwrite; answered with skip or abort, the file is not written.
C4_ConflictPrompt ==
    /\ []C4_Confirmed
    /\ [][C4_WriteChecked /\ C4_Declined]_vars

\* C4's case: save has overwritten a file that another program had written.
C4_Witness ==
    /\ saving.pc = "done"
    /\ \E i \in DOMAIN saving.writes :
            /\ saving.writes[i].differs
            /\ saving.writes[i].file \in ExternalFiles
    /\ \E i \in DOMAIN saving.prompts : saving.prompts[i].answer = "confirm"

\* C5: when save has returned after a prompt was answered with abort, the
\* Store and every file hold what they held when save started (no other
\* program having written since).
C5_AbortLeavesUntouched ==
    (/\ saving.pc = "done"
     /\ \E i \in DOMAIN saving.prompts : saving.prompts[i].answer = "cancel"
     /\ env.writes = saving.began[1].env.writes
     /\ nops = saving.began[1].nops) =>
        /\ state = saving.began[1].state
        /\ \A f \in Files :
            /\ disk[f].exists = saving.began[1].disk[f].exists
            /\ disk[f].content = saving.began[1].disk[f].content

\* C6: the Store that load gives a fresh State, on the files a save of the
\* run before has left (save having shown no prompt and returned True, no
\* other program having written since it started), has the Configurations
\* (names and values), the contexts, the globals and the two active names of
\* the Store that was saved.
C6_RoundTrip ==
    (/\ phase = "running"
     /\ last.op = "load"
     /\ saving.pc = "done"
     /\ saving.result = "True"
     /\ saving.prompts = <<>>
     /\ saving.began[1].env.runs + 1 = env.runs
     /\ saving.began[1].env.writes = env.writes) =>
        /\ DEq(last.mid.configurations, saving.began[1].state.configurations)
        /\ DEq(last.mid.contexts, saving.began[1].state.contexts)
        /\ DEq(last.mid.globals, saving.began[1].state.globals)
        /\ last.mid.configuration_name = saving.began[1].state.configuration_name
        /\ last.mid.context_name = saving.began[1].state.context_name

----------------------------------------------------------------------------
(* Claims about the edit handlers *)

\* this step is the edit handler of `op`, and it has moved the active entry of
\* the collection from its old name to the name typed
Renamed(op, before, after, old) ==
    /\ last'.op = op
    /\ nops' = nops + 1
    /\ DHas(before, old)
    /\ ~DHas(before, last'.name)
    /\ ~DHas(after, old)
    /\ DHas(after, last'.name)

\* C11: whenever the edit handler of the active Configuration (or of the
\* active Context) has removed the old key and inserted the value under a new
\* name, then as the handler returns the new name maps to the value the old
\* name had (the file link apart, which the same dialog edits) and the active
\* name is the new name.
C11_RenameRepoints ==
    [][/\ Renamed("edit_configuration", state.configurations, state'.configurations,
                  state.configuration_name) =>
            /\ RPop(DGet(state'.configurations, last'.name), "filename")
                    = RPop(DGet(state.configurations, state.configuration_name), "filename")
            /\ state'.configuration_name = last'.name
       /\ Renamed("edit_context", state.contexts, state'.contexts, state.context_name) =>
            /\ DGet(state'.contexts, last'.name) = DGet(state.contexts, state.context_name)
            /\ state'.context_name = last'.name]_vars

\* this step is the edit handler of the active Configuration, the dialog
\* confirmed with the Configuration's own name and the file name it has
SameNameEdit ==
    /\ last'.op = "edit_configuration"
    /\ nops' = nops + 1
    /\ last'.name = state.configuration_name
    /\ DHas(state.configurations, state.configuration_name)
    /\ DHas(state'.configurations, state.configuration_name)
    /\ RGet(DGet(state'.configurations, state.configuration_name), "filename", "")
            = shown_filename(state)

\* C12: renaming the active Configuration to its own name, its file name
\* left as it was, changes nothing: the Configurations (names, order and
\* every field) and configuration_name are what they were.
C12_SameNameNoOp ==
    [][SameNameEdit =>
            /\ state'.configurations = state.configurations
            /\ state'.configuration_name = state.configuration_name]_vars

\* C12's case: a Configuration linked to a file, one of several, has been
\* renamed to its own name.
C12_Witness ==
    /\ last.op = "edit_configuration"
    /\ last.result = "ok"
    /\ last.name = last.pre_active
    /\ Len(last.pre_keys) > 1
    /\ shown_filename(state) = "F1"
    /\ state.configuration_name = last.name

----------------------------------------------------------------------------
(* WsApp: Texts, Headers, Global Variables, Context Variables.  The names  *)
(* and values typed here hold no placeholder and are kept as plain text.    *)

\* the names and the value a user types into these dialogs
KeyNames == {"h", "k"}

TextNames == {"x", "y"}

\* the value of the #texts Select, as refresh_texts left it
texts_value(st) ==
    LET texts == get_value(st, "texts", <<>>)
    IN  get_value(st, "text_selected", texts[1].k)

on_add_text_select_item(input1) ==
    /\ phase = "running"
    /\ Counted
    /\ LET s1 == get_configuration(state)
           texts == get_value(s1, "texts", <<>>)
           r == edit_config_state_config_key(texts, input1, "", TRUE, default_text)
       IN  /\ state' = IF r.result = "ok" THEN set_value(s1, "texts", r.section) ELSE s1
           /\ last' = Last("add_text", input1, r.result, DKeys(texts), texts_value(s1),
                           State_init)
    /\ UNCHANGED <<quit_vars, disk, clock, ui, phase, session_vars>>

on_edit_edit_text_select_item(input1) ==
    /\ phase = "running"
    /\ Counted
    /\ LET s1 == get_configuration(state)
           texts == get_value(s1, "texts", <<>>)
           selected == texts_value(s1)
           r == edit_config_state_config_key(texts, input1, selected, FALSE, "")
       IN  /\ state' = IF r.result = "ok"
                       THEN set_value(set_value(s1, "texts", r.section),
                                      "text_selected", input1)
                       ELSE s1
           /\ last' = Last("edit_text", input1, r.result, DKeys(texts), selected, State_init)
    /\ UNCHANGED <<quit_vars, disk, clock, ui, phase, session_vars>>

\* the delete button of the texts; confirm is the user's answer
delete_text(confirm) ==
    /\ phase = "running"
    /\ Counted
    /\ LET s1 == get_configuration(state)
           texts == get_value(s1, "texts", <<>>)
           selected == texts_value(s1)
       IN  /\ state' = IF confirm
                       THEN get_current_text(set_value(s1, "texts", DDel(texts, selected)))
                       ELSE s1
           /\ last' = Last("delete_text", selected, IF confirm THEN "ok" ELSE "declined",
                           DKeys(texts), selected, State_init)
    /\ UNCHANGED <<quit_vars, disk, clock, ui, phase, session_vars>>

\* get_value(section) for the three key-value sections: [state, section],
\* the State after the read and the dict it returned
section_value(st, section) ==
    IF section = "globals" THEN [state |-> st, section |-> st.globals]
    ELSE IF section = "context_variables"
    THEN LET s1 == get_context(st)
         IN  [state |-> s1,
              section |-> RGet(DGet(s1.contexts, s1.context_name), "context_variables", <<>>)]
    ELSE LET s1 == get_configuration(st)
         IN  [state |-> s1, section |-> RGet(configuration(s1), section, <<>>)]

\* the State once the dict get_value(section) returned has been changed to d
section_changed(st, section, d) ==
    IF section = "globals" THEN [st EXCEPT !.globals = d]
    ELSE IF section = "context_variables"
    THEN LET s1 == get_context(st)
         IN  [s1 EXCEPT !.contexts =
                DSet(@, s1.context_name,
                     RSet(DGet(s1.contexts, s1.context_name), "context_variables", d))]
    ELSE set_value(st, section, d)

\* edit_config_state_config_key_value on a dict `section`: [result, section,
\* returns], the dict after it and what it returns
edit_config_state_config_key_value(section, input1, input2, orig_key_name, create) ==
    IF create
    THEN IF section # <<>> /\ DHas(section, input1)
         THEN [result |-> "refused", section |-> section, returns |-> NonePair]
         ELSE [result |-> "ok", section |-> DSet(section, input1, input2),
               returns |-> val(input1, input2)]
    ELSE IF orig_key_name # "" /\ orig_key_name # input1
            /\ section # <<>> /\ DHas(section, input1)
         THEN [result |-> "refused", section |-> section, returns |-> val(input1, input2)]
         ELSE IF ~DHas(section, orig_key_name)
              THEN [result |-> "raised", section |-> section, returns |-> NoReturn]
              ELSE [result |-> "ok",
                    section |-> DSet(DDel(section, orig_key_name), input1, input2),
                    returns |-> val(input1, input2)]

\* an Add handler of a key-value section
key_value_added(op, section, input1, input2) ==
    /\ phase = "running"
    /\ Counted
    /\ LET g == section_value(state, section)
           r == edit_config_state_config_key_value(g.section, input1, input2, "", TRUE)
       IN  /\ state' = IF r.result = "ok" THEN section_changed(g.state, section, r.section)
                       ELSE g.state
           /\ last' = [Last(op, input1, r.result, DKeys(g.section), "", State_init)
                            EXCEPT !.returns = r.returns]
    /\ UNCHANGED <<quit_vars, disk, clock, ui, phase, session_vars>>

\* an Edit handler of a key-value section, on the highlighted option
key_value_edited(op, section, selected, input1, input2) ==
    /\ phase = "running"
    /\ selected # ""
    /\ DHas(section_value(state, section).section, selected)
    /\ Counted
    /\ LET g == section_value(state, section)
           r == edit_config_state_config_key_value(g.section, input1, input2, selected, FALSE)
       IN  /\ state' = IF r.result = "ok" THEN section_changed(g.state, section, r.section)
                       ELSE g.state
           /\ last' = [Last(op, input1, r.result, DKeys(g.section), selected, State_init)
                            EXCEPT !.returns = r.returns]
    /\ UNCHANGED <<quit_vars, disk, clock, ui, phase, session_vars>>

on_edit_header_menu_button_message(selected, input1, input2) ==
    key_value_edited("edit_header", "headers", selected, input1, input2)

on_add_global_variable_menu_button_message(input1, input2) ==
    key_value_added("add_global_variable", "globals", input1, input2)

on_edit_global_variable_menu_button_message(selected, input1, input2) ==
    key_value_edited("edit_global_variable", "globals", selected, input1, input2)

on_add_context_variable_menu_button_message(input1, input2) ==
    key_value_added("add_context_variable", "context_variables", input1, input2)

on_edit_context_variable_menu_button_message(selected, input1, input2) ==
    key_value_edited("edit_context_variable", "context_variables", selected, input1, input2)

----------------------------------------------------------------------------
(* The six collections under create and rename.  The application starts on *)
(* no state file, or on the state file of a run that left a second          *)
(* Configuration, Context and text and one header, global variable and      *)
(* context variable.                                                        *)

MaxKeyOps == 2

PopulatedState ==
    [State_init EXCEPT
        !.globals = <<Entry("h", "v")>>,
        !.contexts = <<Entry("default", [context_variables |-> <<Entry("h", "v")>>]),
                       Entry("x", default_context)>>,
        !.configurations =
            <<Entry("default",
                    [default_configuration EXCEPT
                        !.headers = <<Entry("h", "v")>>,
                        !.texts = <<Entry("", default_text),
                                    Entry("x", [default_text EXCEPT !.method = "GET"])>>]),
              Entry("a", default_configuration)>>]

CollectionDisks ==
    {[f \in Files |-> IF f = StateFile THEN p ELSE NoFile] :
        p \in {NoFile,
               [exists |-> TRUE, mtime |-> 1, content |-> Json(state_data(PopulatedState))]}}

InitCollections ==
    /\ state = State_init
    /\ disk \in CollectionDisks
    /\ clock = 2
    /\ ui = ui_init
    /\ phase = "start"
    /\ last = NoLast
    /\ nops = 0
    /\ connecting_params = <<>>
    /\ ws = "None"
    /\ task = "None"
    /\ dying = "None"
    /\ sess = NoSession
    /\ saving = NoSaving
    /\ env = NoEnv

\* one more create or rename, while the budget of this specification lasts
KeyOp == nops < MaxKeyOps

NextCollections ==
    \/ on_mount
    \/ KeyOp /\ \E n \in ConfigNames : on_add_configuration(n, "")
    \/ KeyOp /\ \E n \in ConfigNames : on_edit_configuration(n, shown_filename(state), TRUE)
    \/ KeyOp /\ \E n \in ContextNames : on_add_context(n)
    \/ KeyOp /\ \E n \in ContextNames : on_edit_context(n)
    \/ KeyOp /\ \E n \in TextNames : on_add_text_select_item(n)
    \/ KeyOp /\ \E n \in TextNames : on_edit_edit_text_select_item(n)
    \/ KeyOp /\ \E c \in BOOLEAN : delete_text(c)
    \/ KeyOp /\ \E n \in KeyNames : on_add_header_menu_button_message(n, "v")
    \/ KeyOp /\ \E o, n \in KeyNames : on_edit_header_menu_button_message(o, n, "w")
    \/ KeyOp /\ \E n \in KeyNames : on_add_global_variable_menu_button_message(n, "v")
    \/ KeyOp /\ \E o, n \in KeyNames : on_edit_global_variable_menu_button_message(o, n, "w")
    \/ KeyOp /\ \E n \in KeyNames : on_add_context_variable_menu_button_message(n, "v")
    \/ KeyOp /\ \E o, n \in KeyNames : on_edit_context_variable_menu_button_message(o, n, "w")

SpecCollections == InitCollections /\ [][NextCollections]_vars

----------------------------------------------------------------------------
(* Claims about create and rename in the six collections *)

CreateOps ==
    {"add_configuration", "add_context", "add_text", "add_header",
     "add_global_variable", "add_context_variable"}

RenameOps ==
    {"edit_configuration", "edit_context", "edit_text", "edit_header",
     "edit_global_variable", "edit_context_variable"}

\* the step is a create whose name is present, or a rename onto another name
\* that is present
NameTaken ==
    /\ nops' = nops + 1
    /\ last'.op \in CreateOps \cup RenameOps
    /\ \E i \in 1..Len(last'.pre_keys) : last'.pre_keys[i] = last'.name
    /\ last'.op \in RenameOps => last'.name # last'.pre_active

\* C13: in each of the six collections a create with a name that is present,
\* and a rename onto a different name that is present, leave every collection
\* (keys and values) and both active names as they were.
C13_TakenNameRefused ==
    [][NameTaken =>
        /\ state'.configurations = state.configurations
        /\ state'.contexts = state.contexts
        /\ state'.globals = state.globals
        /\ state'.configuration_name = state.configuration_name
        /\ state'.context_name = state.context_name]_vars

----------------------------------------------------------------------------
(* Claims about the Variable Resolver *)

\* the context variables of the active Context
active_context_variables(st) ==
    RGet(DGet(get_context(st).contexts, get_context(st).context_name),
         "context_variables", <<>>)

\* C19: the table get_variables returns has the keys of the globals and of
\* the active Context's variables and no other; a key of the context
\* variables has the context's value, any other key the globals' value.
C19_ContextOverridesGlobal ==
    phase = "running" =>
        LET G == state.globals
            C == active_context_variables(state)
            T == get_variables(state)
        IN  /\ DKeySet(T) = DKeySet(G) \cup DKeySet(C)
            /\ \A k \in DKeySet(T) :
                DGet(T, k) = IF DHas(C, k) THEN DGet(C, k) ELSE DGet(G, k)

\* a key is in both tables with two values, and another in the globals only
C19_Witness ==
    /\ phase = "running"
    /\ \E k \in KeyNames :
        /\ DHas(state.globals, k)
        /\ DHas(active_context_variables(state), k)
        /\ DGet(state.globals, k) # DGet(active_context_variables(state), k)
        /\ DGet(get_variables(state), k) = DGet(active_context_variables(state), k)
    /\ \E k \in KeyNames :
        /\ DHas(state.globals, k)
        /\ ~DHas(active_context_variables(state), k)
        /\ DGet(get_variables(state), k) = DGet(state.globals, k)

\* the pieces of the addresses typed: text, placeholders, the escape
Pieces == {Lit("u1"), Var("h"), Var("k"), Escaped}

\* how many pieces an address has at most
MaxPieces == 2

Templates == UNION {[1..n -> Pieces] : n \in 0..MaxPieces}

\* the globals and the active Context's variables an earlier run left
Tables ==
    {[globals |-> <<>>, context_variables |-> <<>>],
     [globals |-> <<Entry("h", "v")>>, context_variables |-> <<>>],
     [globals |-> <<Entry("h", "v")>>, context_variables |-> <<Entry("h", "w")>>]}

\* a Store whose one Configuration has `Use Template for the url' switched on
TemplateState(template, table) ==
    [State_init EXCEPT
        !.globals = table.globals,
        !.contexts = <<Entry("default", [context_variables |-> table.context_variables])>>,
        !.configurations =
            <<Entry("default",
                    RSet([default_configuration EXCEPT !.url = template],
                         "template_url", TRUE))>>]

InitRender ==
    /\ state = State_init
    /\ disk \in {[f \in Files |->
                    IF f = StateFile THEN Written(Json(state_data(TemplateState(t, v))))
                    ELSE NoFile] : t \in Templates, v \in Tables}
    /\ clock = 2
    /\ ui = ui_init
    /\ phase = "start"
    /\ last = NoLast
    /\ nops = 0
    /\ connecting_params = <<>>
    /\ ws = "None"
    /\ task = "None"
    /\ dying = "None"
    /\ sess = NoSession
    /\ saving = NoSaving
    /\ env = NoEnv

NextRender ==
    \/ on_mount
    \/ on_connect_button_message

SpecRender == InitRender /\ [][NextRender]_vars

\* the address typed, and the address the connect action was given
typed == configuration(state).url

rendered == connecting_params[1].url

\* C20: render_template puts the value in the place of each placeholder
\* whose key is in the table, leaves a placeholder whose key is not in the
\* table as it is (and raises nothing), and returns a template that has no
\* placeholder as it is.
C20_Render ==
    (phase = "running" /\ connecting_params # <<>>) =>
        /\ Len(rendered) = Len(typed)
        /\ \A i \in DOMAIN typed :
            typed[i].t = "var" =>
                rendered[i] = IF DHas(get_variables(state), typed[i].s)
                              THEN Lit(DGet(get_variables(state), typed[i].s))
                              ELSE typed[i]
        /\ (\A i \in DOMAIN typed : typed[i].t # "var") => rendered = typed

----------------------------------------------------------------------------
(* Load and save on the files an earlier run, or another program, left:    *)
(* the state file is absent, is not JSON, lists a Configuration that is    *)
(* not an object, or is well formed; it links Configuration 'a' to F1,     *)
(* which is well formed, is not JSON, or is missing.  F2 does not exist.   *)

\* the content of a file that json.load rejects
NotJson == [kind |-> "text"]

\* the state file's content, 'a' linked to F1 and 'b' as given
Listing(b) ==
    Json([selected_configuration |-> "a",
          globals |-> <<>>,
          contexts |-> <<Entry("default", default_context)>>,
          selected_context |-> "default",
          configurations |-> <<Entry("a", [filename |-> "F1"]), Entry("b", b)>>])

InlineConfiguration == [default_configuration EXCEPT !.method = "GET"]

LoadDisks ==
    {[f \in Files |-> IF f = StateFile THEN p ELSE IF f = "F1" THEN e ELSE NoFile] :
        p \in {NoFile, Written(NotJson), Written(Listing(NotObject)),
               Written(Listing(InlineConfiguration))},
        e \in {NoFile, Written(NotJson), Written(Json(LinkedBody))}}

InitLoad ==
    /\ state = State_init
    /\ disk \in LoadDisks
    /\ clock = 2
    /\ ui = ui_init
    /\ phase = "start"
    /\ last = NoLast
    /\ nops = 0
    /\ connecting_params = <<>>
    /\ ws = "None"
    /\ task = "None"
    /\ dying = "None"
    /\ sess = NoSession
    /\ saving = NoSaving
    /\ env = NoEnv

NextLoad ==
    \/ on_mount
    \/ FirstRun /\ \E n \in {"a", "b"} : on_add_configuration(n, "F1")
    \/ FirstRun /\ \E c \in BOOLEAN : on_edit_configuration(state.configuration_name, "F2", c)
    \/ FirstRun /\ \E v \in BOOLEAN : autoping_switch(v)
    \/ action_quit
    \/ \E result \in Answers : confirm_request_answered(result)
    \/ \E f \in Files : external_write(f)

SpecLoad == InitLoad /\ [][NextLoad]_vars

----------------------------------------------------------------------------
(* Claims about load and the save after it *)

\* load ran and reported 'Error loading state', and the user has changed
\* nothing since
LoadFailed == last.op = "load" /\ last.result = "raised"

\* C14: when load has reported an error (the state file is not JSON, or a
\* record that is not an object is met while the file is applied), the Store
\* is not marked loaded and a save after it writes no file.
C14_FailedLoadNeverSaves ==
    LoadFailed => ~state.loaded /\ saving.writes = <<>>

\* load found no state file: it alone records the file's modification time
AbsentAtLoad == phase # "start" /\ state.files_mtime[StateFile] = 0

\* C15: when the state file does not exist as load runs, the Store is left
\* with its defaults and is not marked loaded, and a save of that run writes
\* no file.
C15_AbsentStateFileNeverSaves ==
    AbsentAtLoad =>
        /\ last.op = "load" =>
            /\ last.mid.configurations = State_init.configurations
            /\ last.mid.contexts = State_init.contexts
            /\ last.mid.globals = State_init.globals
        /\ ~state.loaded
        /\ saving.writes = <<>>

\* the last save returned True, no prompt of it was answered no, and no other
\* program has written a file since it began
SavedAll ==
    /\ saving.pc = "done"
    /\ saving.result = "True"
    /\ \A i \in DOMAIN saving.prompts : saving.prompts[i].answer = "confirm"
    /\ env.writes = saving.began[1].env.writes

\* C17: after a save that returned without abort and without a conflict
\* answered "no", the file of every Configuration that has a file name exists
\* and holds the Configuration's fields without the filename key.
C17_LinkedFilesRefreshed ==
    SavedAll =>
        \A i \in DOMAIN state.configurations :
            LET config == state.configurations[i].v
                filename == RGet(config, "filename", "")
            IN  filename # "" =>
                    /\ path_exists(disk, filename)
                    /\ disk[filename].content = Json(config_to_save(config))

\* the configurations object of the state file
listed(dk) == RGet(dk[StateFile].content.data, "configurations", <<>>)

\* the step is load, on a state file that parses, lists objects only and
\* links a Configuration to a file that is missing or is not JSON
LoadsBrokenLink ==
    /\ phase = "start"
    /\ phase' = "running"
    /\ disk[StateFile].exists
    /\ ~load_raises(state, disk)
    /\ \E i \in DOMAIN listed(disk) :
        /\ RGet(listed(disk)[i].v, "filename", "") # ""
        /\ load_configuration_from_file_fails(disk, listed(disk)[i].v.filename)

----------------------------------------------------------------------------
(* Save in a run whose process is killed while a file is being copied.     *)

\* the copies of one save in which the process can be killed
MaxCopies == 2

NextCrash ==
    \/ on_mount
    \/ FirstRun /\ on_add_configuration("b", "F1")
    \/ FirstRun /\ \E v \in BOOLEAN : autoping_switch(v)
    \/ FirstRun /\ \E v \in Urls : address_change(v)
    \/ action_quit
    \/ \E at \in 1..MaxCopies, stage \in CopyStages : killed_in_save(at, stage)
    \/ \E result \in Answers : confirm_request_answered(result)
    \/ \E f \in Files : external_write(f)

SpecCrash == InitStore /\ [][NextCrash]_vars

\* what the save that was under way writes to the file it was copying to
new_content ==
    IF saving.file = StateFile
    THEN Json(state_file_data(state, saving.new_configurations))
    ELSE Json(config_to_save(state.configurations[saving.i - 1].v))

\* C16: when the process is killed while save writes a file, that file holds
\* all of its previous content or all of the new content, never a part of it
\* and never nothing.
C16_KilledWriteIsWhole ==
    phase = "killed" =>
        \/ disk[saving.file].content = saving.began[1].disk[saving.file].content
        \/ disk[saving.file].content = new_content

----------------------------------------------------------------------------
(* The three template switches.  The application starts on the state file *)
(* of a run that left one Configuration whose address, header and text     *)
(* each hold the placeholder of a global variable, with the switches set   *)
(* in each of the eight ways.                                              *)

Toggles == {"template_url", "template_headers", "template_data"}

\* a Configuration with the switches of `on' set, for the given method
TemplateConfiguration(on, method) ==
    [k \in Toggles |-> k \in on] @@
    [default_configuration EXCEPT
        !.url = <<Var("h")>>,
        !.method = method,
        !.auto_reconnect = FALSE,
        !.headers = <<Entry(<<Var("h")>>, <<Var("h")>>)>>,
        !.texts = <<Entry("", [default_text EXCEPT !.text = <<Var("h")>>])>>]

InitToggles ==
    /\ state = State_init
    /\ disk \in {[f \in Files |->
                    IF f = StateFile
                    THEN Written(Json(state_data(
                            [State_init EXCEPT
                                !.globals = <<Entry("h", "v")>>,
                                !.configurations =
                                    <<Entry("default", TemplateConfiguration(on, m))>>])))
                    ELSE NoFile] : on \in SUBSET Toggles, m \in Methods}
    /\ clock = 2
    /\ ui = ui_init
    /\ phase = "start"
    /\ last = NoLast
    /\ nops = 0
    /\ connecting_params = <<>>
    /\ ws = "None"
    /\ task = "None"
    /\ dying = "None"
    /\ sess = NoSession
    /\ saving = NoSaving
    /\ env = NoEnv

NextToggles ==
    \/ on_mount
    \/ on_connect_button_message
    \/ send_message
    \/ cancel_delivered
    \/ connect_started
    \/ ws_connected
    \/ ws_closed_by_remote
    \/ http_completed
    \/ \E v \in BOOLEAN : template_url_switch(v)
    \/ \E v \in BOOLEAN : template_headers_switch(v)
    \/ \E v \in BOOLEAN : template_data_switch(v)

SpecToggles == InitToggles /\ [][NextToggles]_vars

\* the switch is off as the step begins
Off(toggle) == ~get_value(state, toggle, FALSE)

\* the step is a connect press that takes the snapshot
Snapshots == connecting_params = <<>> /\ connecting_params' # <<>>

\* the step opens a WebSocket or issues an HTTP request
Connects ==
    \/ sess'.attempts = sess.attempts + 1
    \/ sess'.requests = sess.requests + 1

\* C21: with template_url off the address the connection is made to is the
\* address as typed; with template_headers off every header name and value
\* is as typed; with template_data off the text written to the socket, and
\* the body of the HTTP request, is the text as typed; each whatever the
\* other two switches are.
C21_SwitchedOffIsLiteral ==
    [][/\ (Snapshots /\ Off("template_url")) =>
            connecting_params'[1].url = configuration(state).url
       /\ (Snapshots /\ Off("template_headers")) =>
            connecting_params'[1].headers = configuration(state).headers
       /\ Connects =>
            /\ sess'.used[1].url = connecting_params[1].url
            /\ sess'.used[1].headers = connecting_params[1].headers
       /\ (sess'.requests = sess.requests + 1 /\ Off("template_data")) =>
            sess'.used[1].data = textarea(state)
       /\ (sess'.written = sess.written + 1 /\ Off("template_data")) =>
            sess'.sent = <<textarea(state)>>]_vars

\* a socket was opened on the address as typed, with the header as typed,
\* and a rendered text was written to it
C21_Witness ==
    /\ sess.used # <<>>
    /\ sess.used[1].call = "ws_connect"
    /\ sess.used[1].url = <<Var("h")>>
    /\ sess.used[1].headers = <<Entry(<<Var("h")>>, <<Var("h")>>)>>
    /\ sess.sent = <<<<Lit("v")>>>>

\* an HTTP request went out with a rendered address and the text as typed
C21_WitnessRequest ==
    /\ sess.used # <<>>
    /\ sess.used[1].call = "request"
    /\ sess.used[1].url = <<Lit("v")>>
    /\ sess.used[1].data = <<Var("h")>>

----------------------------------------------------------------------------
(* The Session Manager on the wire: the frames and errors of the transport *)
(* against the user's connect, send and ping.  The application starts on   *)
(* the state file of a run that left one Configuration, for each method    *)
(* and each setting of auto_reconnect.                                     *)

WireDisk(method, auto_reconnect) ==
    [f \in Files |->
        IF f = StateFile
        THEN Written(Json(state_data(
                [State_init EXCEPT
                    !.configurations =
                        <<Entry("default",
                                [default_configuration EXCEPT
                                    !.method = method,
                                    !.auto_reconnect = auto_reconnect])>>])))
        ELSE NoFile]

InitWire ==
    /\ state = State_init
    /\ disk \in {WireDisk(m, r) : m \in Methods, r \in BOOLEAN}
    /\ clock = 2
    /\ ui = ui_init
    /\ phase = "start"
    /\ last = NoLast
    /\ nops = 0
    /\ connecting_params = <<>>
    /\ ws = "None"
    /\ task = "None"
    /\ dying = "None"
    /\ sess = NoSession
    /\ saving = NoSaving
    /\ env = NoEnv

NextWire ==
    \/ on_mount
    \/ on_connect_button_message
    \/ cancel_delivered
    \/ connect_started
    \/ ws_connected
    \/ \E exc \in TransportErrors : ws_connect_failed(exc)
    \/ \E type \in FrameTypes : ws_frame_received(type)
    \/ ws_closed_by_remote
    \/ \E exc \in TransportErrors : ws_failed(exc)
    \/ reconnect
    \/ http_completed
    \/ \E exc \in TransportErrors : http_failed(exc)

SpecWire == InitWire /\ [][NextWire]_vars

\* the same, with the ping button, for the WebSocket method
InitPing ==
    /\ InitWire
    /\ disk \in {WireDisk("WS", r) : r \in BOOLEAN}

NextPing ==
    \/ on_mount
    \/ on_connect_button_message
    \/ ping
    \/ cancel_delivered
    \/ connect_started
    \/ ws_connected
    \/ \E exc \in TransportErrors : ws_connect_failed(exc)
    \/ ws_closed_by_remote
    \/ \E exc \in TransportErrors : ws_failed(exc)
    \/ reconnect

SpecPing == InitPing /\ [][NextPing]_vars

\* the step is one in which the transport raises
Faults == sess'.faults = sess.faults + 1

\* C22: an error the transport raises while connecting, during a WebSocket
\* session or during an HTTP request is logged as one error line, the task
\* never ends with the exception, and the loop goes on as after a session
\* that ended normally: it is left (button 'Connect', parameters cleared)
\* when auto_reconnect is off or the method is not WS, and sleeps before the
\* next attempt otherwise.
C22_TransportErrorCaught ==
    /\ [](task # "raised")
    /\ [][Faults =>
            /\ sess'.errors = sess.errors + 1
            /\ sess'.ends = sess.ends + 1
            /\ IF leaves
               THEN /\ task' = "done"
                    /\ connecting_params' = <<>>
                    /\ ui'.connect = "Connect"
               ELSE /\ task' = "sleeping"
                    /\ connecting_params' = connecting_params]_vars

\* an I/O error in the middle of a session was logged and the loop sleeps
\* before it reconnects
C22_Witness ==
    /\ task = "sleeping"
    /\ sess.faults = 1
    /\ sess.errors = 1
    /\ sess.socket = "closed"
    /\ sess.closes = 0

\* a refused connection and a failed request each ended the loop
C22_WitnessLeaves ==
    /\ task = "done"
    /\ sess.faults = 1
    /\ sess.errors = 1
    /\ sess.socket = "none"

\* C23: 'Connected to' and 'Disconnected' come in turn, 'Connected to'
\* first: no attempt, reconnect or new session begins while a session that
\* logged 'Connected to' has not logged its 'Disconnected', however it ended
\* (remote close, error, user's cancel), and an attempt that never connected
\* logs no 'Disconnected'.
C23_ConnectedDisconnectedAlternate ==
    /\ [](sess.link # "broken")
    /\ [](task \in {"connecting", "sleeping", "requesting"} => sess.link = "down")
    /\ [](sess.link = "up" => task = "open" \/ dying = "open")
    /\ [][task = "connecting" /\ task' # "open" => sess'.link = sess.link]_vars

\* a session ended by the remote side, then one ended by the user's cancel:
\* both logged 'Disconnected'
C23_Witness ==
    /\ sess.closes = 1
    /\ sess.reconnects = 1
    /\ task = "cancelled"
    /\ dying = "None"
    /\ sess.socket = "closed"
    /\ sess.link = "down"

\* a WebSocket session is Open: the task is in the frame loop of a socket
\* that has not closed
Open == task = "open" /\ sess.socket = "open"

\* C24: a press of ping while no WebSocket session is Open (before the first
\* connect, after a session the remote side or an error ended, during the
\* sleep before a reconnect, after the user disconnected) sends nothing and
\* logs nothing.
C24_PingWithoutSessionIsNoOp ==
    [][(sess'.pings = sess.pings + 1 /\ ~Open) =>
            /\ sess'.ping_lines = sess.ping_lines
            /\ sess'.errors = sess.errors]_vars

\* the step is a press of send
Sends == sess'.sends = sess.sends + 1

\* C25: when the method of the active Configuration is not WS, a press of
\* send starts one HTTP request: a snapshot is taken and a task is created
\* for it, whether the Session Manager was idle, had a request in flight or
\* had a WebSocket open.
C25_SendStartsRequest ==
    [][(Sends /\ get_value(state, "method", "WS") # "WS") =>
            /\ task' = "created"
            /\ connecting_params' # <<>>
            /\ connecting_params'[1].method = get_value(state, "method", "WS")]_vars

\* the step is a press of the connect button
Presses == sess'.presses = sess.presses + 1

\* C26: of the tasks create_task made, at most one has neither returned nor
\* been cancelled, and it is the one self._connect_task refers to; a press
\* of the connect button while the connecting parameters are set cancels
\* that task, clears the parameters and starts nothing.
C26_OneLiveTask ==
    /\ [](sess.live = IF task \in LiveTask THEN 1 ELSE 0)
    /\ [][(Presses /\ connecting_params # <<>>) =>
            /\ task' \notin LiveTask
            /\ connecting_params' = <<>>
            /\ sess'.attempts = sess.attempts
            /\ sess'.requests = sess.requests]_vars

\* the user disconnected an open session and connected again: the new task
\* is the only live one while the cancelled one has yet to unwind
C26_Witness ==
    /\ sess.presses = 3
    /\ task = "created"
    /\ dying = "open"
    /\ sess.live = 1

\* C27: a press of the connect button while a WebSocket session is open
\* cancels the task, clears self._ws and the connecting parameters; the
\* cancelled task logs 'Disconnected' once as its socket is closed, and
\* until the button is pressed again no frame is processed, no 'Connected
\* to' is logged and no attempt or reconnect is made, with auto_reconnect
\* on as with it off.
C27_DisconnectInterrupts ==
    /\ [][(Presses /\ task = "open") =>
            /\ task' = "cancelled"
            /\ dying' = "open"
            /\ ws' = "None"
            /\ connecting_params' = <<>>]_vars
    /\ [][(task = "cancelled" /\ ~Presses) =>
            /\ task' = "cancelled"
            /\ sess'.frames = sess.frames
            /\ sess'.attempts = sess.attempts
            /\ sess'.reconnects = sess.reconnects
            /\ sess'.link # sess.link =>
                    /\ dying = "open" /\ dying' = "None"
                    /\ sess.link = "up" /\ sess'.link = "down"
                    /\ sess'.socket = "closed"]_vars
    /\ [](task = "cancelled" => ws = "None" /\ connecting_params = <<>>)
    /\ [](task = "cancelled" /\ dying = "None" => sess.link = "down" /\ sess.socket # "open")

\* with auto_reconnect on, the user disconnected a session that had
\* received a frame; 'Disconnected' was logged and the socket is closed
C27_Witness ==
    /\ get_value(state, "auto_reconnect", FALSE)
    /\ task = "cancelled"
    /\ dying = "None"
    /\ sess.frames = 1
    /\ sess.socket = "closed"
    /\ sess.link = "down"
    /\ ws = "None"

----------------------------------------------------------------------------
(* Claims about the texts and about the result of a refused create or rename *)

\* C29: after the only Text of the active Configuration was deleted, its
\* texts hold exactly one entry, whose value is the default Text (empty
\* text, empty url, method WS), and text_selected names that entry.
C29_DeleteLastText ==
    (last.op = "delete_text" /\ last.result = "ok" /\ Len(last.pre_keys) = 1) =>
        LET cfg == configuration(state)
        IN  /\ Len(cfg.texts) = 1
            /\ cfg.texts[1].v = default_text
            /\ cfg.text_selected = cfg.texts[1].k

KeyValueOps ==
    {"add_header", "edit_header", "add_global_variable", "edit_global_variable",
     "add_context_variable", "edit_context_variable"}

\* C30: a create or rename of a header, global variable or context variable
\* that is refused because the name is taken returns something else than
\* the modal's result, which is what a create or rename that succeeds
\* returns.
C30_RefusalDiffers ==
    (last.op \in KeyValueOps /\ last.result = "refused") =>
        last.returns # val(last.name, last.returns.input2)

\* a refused create returned the pair of None
C30_RefusedCreate ==
    /\ last.op \in {"add_header", "add_global_variable", "add_context_variable"}
    /\ last.result = "refused"
    /\ last.returns = NonePair

----------------------------------------------------------------------------
(* Claims about what a read, a delete, a save and a quit leave behind *)

\* the State after get_variables(): its call of get_context() may have set
\* context_name
after_get_variables(st) == get_context(st)

\* the fields of the Store
Store(st) ==
    [globals |-> st.globals, contexts |-> st.contexts, context_name |-> st.context_name,
     configurations |-> st.configurations, configuration_name |-> st.configuration_name]

\* C31: get_variables() leaves globals, contexts, context_name,
\* configurations and configuration_name as they were, in every state the
\* application reaches, and a second call right after the first returns the
\* same table.
C31_GetVariablesReadsOnly ==
    phase = "running" =>
        /\ Store(after_get_variables(state)) = Store(state)
        /\ get_variables(after_get_variables(state)) = get_variables(state)

\* the last Configuration was deleted while no Context was named "default":
\* delete_configuration left context_name naming no Context, the handler's
\* refresh has set it right, and get_variables() finds nothing to change
C31_Witness ==
    /\ phase = "running"
    /\ last.op = "delete_configuration"
    /\ last.result = "ok"
    /\ ~DHas(last.mid.contexts, last.mid.context_name)
    /\ Store(after_get_variables(state)) = Store(state)

\* save has written the state file and returned True, after a prompt about
\* a linked file was answered skip
SkippedAndSaved ==
    /\ phase = "exited"
    /\ saving.pc = "done"
    /\ saving.result = "True"
    /\ \E i \in DOMAIN saving.prompts :
            /\ saving.prompts[i].file \in ExternalFiles
            /\ is_skip(saving.prompts[i].answer)
    /\ \E i \in DOMAIN saving.writes : saving.writes[i].file = StateFile

\* C32: after a prompt about a linked Configuration's file was answered
\* skip, the state file save goes on to write has an entry for every
\* Configuration of the Store, and the entry of the skipped one records its
\* filename.
C32_SkipKeepsEntry ==
    SkippedAndSaved =>
        \A i \in DOMAIN state.configurations :
            LET key == state.configurations[i].k
                filename == RGet(state.configurations[i].v, "filename", "")
            IN  /\ DHas(saving.new_configurations, key)
                /\ filename # "" =>
                        DGet(saving.new_configurations, key) = [filename |-> filename]

\* the step is a delete handler that was confirmed and has called the
\* State's delete method
Deletes(op) == nops' = nops + 1 /\ last'.op = op /\ last'.result # "declined"

\* C33: State.delete_configuration leaves contexts and context_name as they
\* were, and State.delete_context leaves configurations and
\* configuration_name as they were, also when the entry deleted was the
\* last of its collection.
C33_DeleteKeepsOtherCollection ==
    [][/\ Deletes("delete_configuration") =>
            /\ last'.mid.contexts = state.contexts
            /\ last'.mid.context_name = state.context_name
       /\ Deletes("delete_context") =>
            /\ last'.mid.configurations = state.configurations
            /\ last'.mid.configuration_name = state.configuration_name]_vars

\* C34: whenever no handler is running, the connect button shows
\* 'Disconnect' if the connecting parameters are set and 'Connect' if they
\* are not: after a connect, a user's cancel, the end of an HTTP request,
\* the end of a WebSocket session without auto_reconnect, and while the loop
\* sleeps before it reconnects.
C34_LabelTellsParameters ==
    /\ ui.connect \in {"Connect", "Disconnect"}
    /\ ui.connect = "Disconnect" <=> connecting_params # <<>>

\* the loop sleeps before it reconnects: the button shows 'Disconnect'
C34_Witness ==
    /\ task = "sleeping"
    /\ sess.ends = 1
    /\ connecting_params # <<>>
    /\ ui.connect = "Disconnect"

\* the user cancelled an open session: the button shows 'Connect'
C34_WitnessCancel ==
    /\ task = "cancelled"
    /\ sess.link = "up"
    /\ connecting_params = <<>>
    /\ ui.connect = "Connect"

\* the step is a press of the quit key
Quits == env'.saves = env.saves + 1

\* C35: a press of quit, and an answer other than abort to a prompt of the
\* save it started, leave the application exited or at the next prompt of
\* that save, whether load had found and applied the state file, had found
\* none, or had failed; the save being one step from await to await, the
\* application exits once its prompts are answered.
C35_QuitExits ==
    [][/\ Quits => phase' \in {"saving", "exited"}
       /\ (Answering("confirm") \/ Answering("no")) => phase' \in {"saving", "exited"}]_vars

----------------------------------------------------------------------------
(* Save against another program that writes the files at any moment, also  *)
(* between the comparison of a file's times and the copy to it.            *)

NextRace ==
    \/ on_mount
    \/ FirstRun /\ on_add_configuration("b", "F1")
    \/ FirstRun /\ \E v \in BOOLEAN : autoping_switch(v)
    \/ action_quit
    \/ \E at \in 1..MaxCopies : written_in_save(at)
    \/ \E result \in Answers : confirm_request_answered(result)
    \/ \E f \in Files : external_write(f)

SpecRace == InitStore /\ [][NextRace]_vars

\* the prompt about file f was shown in this save and answered overwrite
Overwrite(f) ==
    \E j \in DOMAIN saving.prompts :
        saving.prompts[j] = [file |-> f, answer |-> "confirm"]

\* C36: whenever another program has written a file since load, be it
\* before save compares the file's times, between the comparison and the
\* copy, or while a prompt about another file is open, save writes that
\* file only if the prompt about it was shown and answered overwrite.
C36_NoSilentOverwrite ==
    \A i \in DOMAIN saving.writes :
        (saving.writes[i].differs \/ saving.writes[i].raced) =>
            Overwrite(saving.writes[i].file)

====
